---- MODULE Spec2Model ----
(***************************************************************************)
(* Model of the Kaspa wallet's cryptographic core:                         *)
(*   - the address codec            (src/src/lib/address.ts)               *)
(*   - the transaction signing engine (src/unnamed/part_000,               *)
(*     imported by the store as '../lib/transaction')                      *)
(*                                                                         *)
(* Conventions.                                                            *)
(*   A JavaScript string is a sequence of one-character strings.           *)
(*   A Uint8Array is a sequence of integers 0..255.                        *)
(*   A function that may throw returns [ok |-> TRUE, val |-> v] or         *)
(*   [ok |-> FALSE, err |-> m], m being the leading words of the message   *)
(*   of the Error the code throws.                                         *)
(*   A 32-bit word is kept as two 16-bit halves, because the integers of   *)
(*   the model checker are 32-bit signed.                                  *)
(***************************************************************************)
EXTENDS Integers, Sequences, FiniteSets, TLC

(***************************************************************************)
(* State                                                                   *)
(***************************************************************************)
VARIABLES
  \* --- a use of the address codec ---
  codecPc,          \* "idle" | "start" | "encoded" | "edited" | "decoded"
  encodeArgs,       \* [payload, prefix, version] handed to encodeKaspaAddress
  addressText,      \* the address string handed to decodeKaspaAddress
  addressEdit,      \* how addressText differs from the encoder's output:
                    \* [kind |-> "none" | "replace" | "all" | "prefix" | "payload",
                    \*  pos |-> the position replaced, or 0]
  allowedArg,       \* the allowedPrefixes of the decodeKaspaAddress call
  decodeResult,     \* <<>> or <<result of decodeKaspaAddress>>
  scriptResult,     \* <<>> or <<result of addressToScriptPublicKey>>
  addressCheck,     \* <<>> or <<result of isValidKaspaAddress>>
  \* --- one call of buildSignedTransaction ---
  pc,               \* "idle" | "start" | "inputs" | "outputs" | "change" | "sign"
                    \* | "emit" | "returned" | "thrown"
  params,           \* the TransactionSigningParams of the call
  workingTx,        \* the local `transaction`: the working SerializableTransaction
  loopIndex,        \* position in the current loop (1-based)
  totalInput,
  totalOutput,
  hashCache,        \* the local `cache`: the HashCache of the call
  returned,         \* <<>> or <<the SignedTransactionPayload returned>>
  thrown,           \* <<>> or <<message of the Error thrown>>
  \* --- history, not program state ---
  resolved,         \* number of addressToScriptPublicKey calls made by the call
  signedHashes,     \* the signature hash signed for each input, in order
  hashComputations, \* the sub-hashes computed (not taken from the cache), in order
  \* --- calls of calculateSigHash on their own ---
  sigCall,          \* <<>> or <<[hashType, inputIndex] of the calls>>
  \* --- the API client and the wallet store (<<>> while not in use) ---
  submission,       \* one call of KaspaAPI.submitTransaction
  sending,          \* one call of sendTransaction of the wallet store
  store             \* the wallet store with its requests in flight

codecVars == <<codecPc, encodeArgs, addressText, addressEdit, allowedArg, decodeResult, scriptResult,
              addressCheck>>
txVars == <<pc, params, workingTx, loopIndex, totalInput, totalOutput, hashCache,
            returned, thrown, resolved, signedHashes, hashComputations, sigCall>>
appVars == <<submission, sending, store>>
vars == <<codecVars, txVars, appVars>>

(***************************************************************************)
(* Characters                                                              *)
(***************************************************************************)
LowerLetters == <<"a","b","c","d","e","f","g","h","i","j","k","l","m",
                  "n","o","p","q","r","s","t","u","v","w","x","y","z">>
UpperLetters == <<"A","B","C","D","E","F","G","H","I","J","K","L","M",
                  "N","O","P","Q","R","S","T","U","V","W","X","Y","Z">>
DigitChars == <<"0","1","2","3","4","5","6","7","8","9">>

Range(s) == {s[i] : i \in 1..Len(s)}

IndexIn(s, ch) == CHOOSE i \in 1..Len(s) : s[i] = ch

\* the code unit of each character of the model (ASCII)
CharCodes ==
  [ch \in Range(LowerLetters) \cup Range(UpperLetters) \cup Range(DigitChars) \cup {":"} |->
     IF ch \in Range(LowerLetters) THEN 96 + IndexIn(LowerLetters, ch)
     ELSE IF ch \in Range(UpperLetters) THEN 64 + IndexIn(UpperLetters, ch)
     ELSE IF ch \in Range(DigitChars) THEN 47 + IndexIn(DigitChars, ch)
     ELSE 58]

LowerOf == [ch \in Range(UpperLetters) |-> LowerLetters[IndexIn(UpperLetters, ch)]]
UpperOf == [ch \in Range(LowerLetters) |-> UpperLetters[IndexIn(LowerLetters, ch)]]

\* String.prototype.charCodeAt
charCodeAt(ch) == CharCodes[ch]

toLowerCaseChar(ch) == IF ch \in DOMAIN LowerOf THEN LowerOf[ch] ELSE ch

toUpperCaseChar(ch) == IF ch \in DOMAIN UpperOf THEN UpperOf[ch] ELSE ch

\* String.prototype.toLowerCase / toUpperCase
toLowerCase(s) == [i \in 1..Len(s) |-> toLowerCaseChar(s[i])]
toUpperCase(s) == [i \in 1..Len(s) |-> toUpperCaseChar(s[i])]

(***************************************************************************)
(* Bit operations on non-negative integers                                 *)
(***************************************************************************)
Pow2(n) == 2 ^ n

\* a >> n and the low n bits of a
Shr(a, n) == a \div Pow2(n)
LowBits(a, n) == a % Pow2(n)

RECURSIVE XorBits(_, _)
XorBits(a, b) ==
  IF a = 0 THEN b
  ELSE IF b = 0 THEN a
  ELSE ((a + b) % 2) + 2 * XorBits(a \div 2, b \div 2)

\* a ^ b of two 4-bit values, tabulated
XorNibble == [a \in 0..15 |-> [b \in 0..15 |-> XorBits(a, b)]]

RECURSIVE Xor(_, _)
\* a ^ b, four bits at a time
Xor(a, b) ==
  IF a = 0 THEN b
  ELSE IF b = 0 THEN a
  ELSE XorNibble[a % 16][b % 16] + 16 * Xor(a \div 16, b \div 16)

(***************************************************************************)
(* address.ts: constants                                                   *)
(***************************************************************************)
CHARSET == <<"q","p","z","r","y","9","x","8","g","f","2","t","v","d","w","0",
             "s","3","j","n","5","4","k","h","c","e","6","m","u","a","7","l">>

CHARSET_INVERSE_INDEX ==
  ("q" :> 0)  @@ ("p" :> 1)  @@ ("z" :> 2)  @@ ("r" :> 3)  @@
  ("y" :> 4)  @@ ("9" :> 5)  @@ ("x" :> 6)  @@ ("8" :> 7)  @@
  ("g" :> 8)  @@ ("f" :> 9)  @@ ("2" :> 10) @@ ("t" :> 11) @@
  ("v" :> 12) @@ ("d" :> 13) @@ ("w" :> 14) @@ ("0" :> 15) @@
  ("s" :> 16) @@ ("3" :> 17) @@ ("j" :> 18) @@ ("n" :> 19) @@
  ("5" :> 20) @@ ("4" :> 21) @@ ("k" :> 22) @@ ("h" :> 23) @@
  ("c" :> 24) @@ ("e" :> 25) @@ ("6" :> 26) @@ ("m" :> 27) @@
  ("u" :> 28) @@ ("a" :> 29) @@ ("7" :> 30) @@ ("l" :> 31)

\* GENERATOR1 = [0x98, 0x79, 0xf3, 0xae, 0x1e]
GENERATOR1 == <<152, 121, 243, 174, 30>>

\* GENERATOR2 = [0xf2bc8e61, 0xb76d99e2, 0x3e5fb3c4, 0x2eabe2a8, 0x4f43e470],
\* each word as <<high 16 bits, low 16 bits>>:
\*   0xf2bc = 62140  0x8e61 = 36449     0xb76d = 46957  0x99e2 = 39394
\*   0x3e5f = 15967  0xb3c4 = 46020     0x2eab = 11947  0xe2a8 = 58024
\*   0x4f43 = 20291  0xe470 = 58480
GENERATOR2 == << <<62140, 36449>>, <<46957, 39394>>, <<15967, 46020>>,
                 <<11947, 58024>>, <<20291, 58480>> >>

DEFAULT_ALLOWED_PREFIXES ==
  << <<"k","a","s","p","a">>,
     <<"k","a","s","p","a","t","e","s","t">>,
     <<"k","a","s","p","a","d","e","v">>,
     <<"k","a","s","p","a","s","i","m">> >>

Ok(v) == [ok |-> TRUE, val |-> v]
Throw(m) == [ok |-> FALSE, err |-> m]

\* function hasSingleCase(value)
hasSingleCase(value) == value = toLowerCase(value) \/ value = toUpperCase(value)

(***************************************************************************)
(* address.ts: bit re-packing and base32                                   *)
(***************************************************************************)
RECURSIVE convertBitsDrain(_, _, _, _)
\* the inner loop: while (bits >= to) { bits -= to; result[index++] = (accumulator >> bits) & mask }
convertBitsDrain(accumulator, bits, to, written) ==
  IF bits >= to
  THEN convertBitsDrain(accumulator, bits - to, to,
                        Append(written, LowBits(Shr(accumulator, bits - to), to)))
  ELSE [accumulator |-> accumulator, bits |-> bits, written |-> written]

\* one round of the outer loop, for the element value.  The accumulator is a
\* 32-bit integer that the code never masks; only its bits below from + to
\* (at most 13) are ever read, so it is kept modulo 2^24.
convertBitsStep(st, value, from, to) ==
  IF ~st.ok THEN st
  ELSE IF ~(0 <= value /\ Shr(value, from) = 0) THEN Throw("Invalid value")
  ELSE Ok(convertBitsDrain(
            LowBits(st.val.accumulator, 24 - from) * Pow2(from) + value,
            st.val.bits + from, to, st.val.written))

RECURSIVE convertBitsLoop(_, _, _, _, _, _)
\* the outer loop over data[lo..hi], in order (the range is halved to keep
\* the evaluation shallow)
convertBitsLoop(data, from, to, lo, hi, st) ==
  IF lo > hi THEN st
  ELSE IF lo = hi THEN convertBitsStep(st, data[lo], from, to)
  ELSE LET mid == (lo + hi) \div 2
           left == convertBitsLoop(data, from, to, lo, mid, st)
       IN IF left.ok THEN convertBitsLoop(data, from, to, mid + 1, hi, left) ELSE left

\* new Uint8Array(length) holding what was written: a write past the end of a
\* typed array is dropped, an element never written stays 0.
Uint8ArrayOf(length, written) ==
  [k \in 1..length |-> IF k <= Len(written) THEN written[k] ELSE 0]

\* a variant of convertBits whose strict mode tests only that the leftover
\* bits are zero, not how many they are
convertBitsZeroOnly(data, from, to, strictMode) ==
  LET length == IF strictMode THEN (Len(data) * from) \div to
                ELSE (Len(data) * from + to - 1) \div to
      loop == convertBitsLoop(data, from, to, 1, Len(data),
                              Ok([accumulator |-> 0, bits |-> 0, written |-> <<>>]))
  IN IF ~loop.ok THEN loop
     ELSE LET st == loop.val
              pad == LowBits(LowBits(st.accumulator, to) * Pow2(to - st.bits), to)
          IN IF ~strictMode
             THEN Ok(Uint8ArrayOf(length,
                       IF st.bits > 0 THEN Append(st.written, pad) ELSE st.written))
             ELSE IF pad = 0
                  THEN Ok(Uint8ArrayOf(length, st.written))
                  ELSE Throw("Input cannot be converted")

\* function convertBits(data, from, to, strictMode)
convertBits(data, from, to, strictMode) ==
  LET length == IF strictMode THEN (Len(data) * from) \div to
                ELSE (Len(data) * from + to - 1) \div to
      loop == convertBitsLoop(data, from, to, 1, Len(data),
                              Ok([accumulator |-> 0, bits |-> 0, written |-> <<>>]))
  IN IF ~loop.ok THEN loop
     ELSE LET st == loop.val
              \* (accumulator << (to - bits)) & mask
              pad == LowBits(LowBits(st.accumulator, to) * Pow2(to - st.bits), to)
          IN IF ~strictMode
             THEN Ok(Uint8ArrayOf(length,
                       IF st.bits > 0 THEN Append(st.written, pad) ELSE st.written))
             ELSE IF st.bits < from /\ pad = 0
                  THEN Ok(Uint8ArrayOf(length, st.written))
                  ELSE Throw("Input cannot be converted")

\* function base32Encode(data)
base32Encode(data) ==
  IF \E i \in 1..Len(data) : ~(0 <= data[i] /\ data[i] < 32)
  THEN Throw("Invalid value")
  ELSE Ok([i \in 1..Len(data) |-> CHARSET[data[i] + 1]])

\* function base32Decode(value)
base32Decode(value) ==
  IF \E i \in 1..Len(value) : value[i] \notin DOMAIN CHARSET_INVERSE_INDEX
  THEN Throw("Invalid value")
  ELSE Ok([i \in 1..Len(value) |-> CHARSET_INVERSE_INDEX[value[i]]])

\* function prefixToArray(prefix)
prefixToArray(prefix) == [i \in 1..Len(prefix) |-> charCodeAt(prefix[i]) % 32]

(***************************************************************************)
(* address.ts: checksum.  The 40-bit value c0 * 2^32 + c1 is the record    *)
(* [c0, hi, lo] with c1 = hi * 2^16 + lo.                                  *)
(***************************************************************************)
RECURSIVE polymodGenerators(_, _, _)
\* for (i = 0; i < GENERATOR1.length; i++) if (c & (1 << i)) { c0 ^= G1[i]; c1 ^= G2[i] }
polymodGenerators(c, i, w) ==
  IF i > Len(GENERATOR1) THEN w
  ELSE polymodGenerators(c, i + 1,
         IF Shr(c, i - 1) % 2 = 1
         THEN [c0 |-> Xor(w.c0, GENERATOR1[i]),
               hi |-> Xor(w.hi, GENERATOR2[i][1]),
               lo |-> Xor(w.lo, GENERATOR2[i][2])]
         ELSE w)

\* one round of the loop of polymod for the symbol d
polymodStep(w, d) ==
  polymodGenerators(Shr(w.c0, 3), 1,
    [c0 |-> LowBits(w.c0, 3) * 32 + Shr(w.hi, 11),
     hi |-> LowBits(w.hi, 11) * 32 + Shr(w.lo, 11),
     lo |-> Xor(LowBits(w.lo, 11) * 32, d)])

RECURSIVE polymodLoop(_, _, _, _)
\* the loop of polymod over data[lo..hi], in order (the range is halved to
\* keep the evaluation shallow)
polymodLoop(data, lo, hi, w) ==
  IF lo > hi THEN w
  ELSE IF lo = hi THEN polymodStep(w, data[lo])
  ELSE LET mid == (lo + hi) \div 2
           left == polymodLoop(data, lo, mid, w)
       IN IF left.c0 >= 0 THEN polymodLoop(data, mid + 1, hi, left) ELSE left

\* function polymod(data): c0 = 0, c1 = 1, the loop, c1 ^= 1
polymod(data) ==
  LET w == polymodLoop(data, 1, Len(data), [c0 |-> 0, hi |-> 0, lo |-> 1])
  IN [c0 |-> w.c0, hi |-> w.hi, lo |-> Xor(w.lo, 1)]

Zero40 == [c0 |-> 0, hi |-> 0, lo |-> 0]

RECURSIVE checksumToArrayLoop(_, _, _)
\* result.push(checksum & 31); checksum /= 32, eight times
checksumToArrayLoop(w, i, result) ==
  IF i >= 8 THEN result
  ELSE checksumToArrayLoop(
         [c0 |-> Shr(w.c0, 5),
          hi |-> Shr(w.hi, 5) + LowBits(w.c0, 5) * Pow2(11),
          lo |-> Shr(w.lo, 5) + LowBits(w.hi, 5) * Pow2(11)],
         i + 1, Append(result, LowBits(w.lo, 5)))

Reverse(s) == [i \in 1..Len(s) |-> s[Len(s) + 1 - i]]

\* a variant of checksumToArray that forgets result.reverse()
checksumToArrayUnreversed(checksum) == checksumToArrayLoop(checksum, 0, <<>>)

\* function checksumToArray(checksum)
checksumToArray(checksum) == Reverse(checksumToArrayLoop(checksum, 0, <<>>))

\* a variant of hasValidChecksum that compares only the top byte (c0) of the
\* 40-bit value
hasValidChecksumTopByte(prefix, payload) ==
  polymod(prefixToArray(prefix) \o <<0>> \o payload).c0 = 0

\* function hasValidChecksum(prefix, payload)
hasValidChecksum(prefix, payload) ==
  polymod(prefixToArray(prefix) \o <<0>> \o payload) = Zero40

(***************************************************************************)
(* address.ts: decode, encode, spend script                                *)
(***************************************************************************)
RECURSIVE split(_, _)
\* String.prototype.split(sep) for a one-character separator
split(s, sep) ==
  IF \A i \in 1..Len(s) : s[i] # sep THEN <<s>>
  ELSE LET k == CHOOSE i \in 1..Len(s) :
                  s[i] = sep /\ \A j \in 1..(i - 1) : s[j] # sep
       IN <<SubSeq(s, 1, k - 1)>> \o split(SubSeq(s, k + 1, Len(s)), sep)

\* a variant of normalizeAddress that takes two or more pieces
normalizeAddressTwoOrMore(address) ==
  LET pieces == split(toLowerCase(address), ":")
  IN IF ~hasSingleCase(address) THEN Throw("Mixed case address")
     ELSE IF Len(pieces) < 2 THEN Throw("Invalid address format")
     ELSE Ok([prefix |-> pieces[1], encodedPayload |-> pieces[2]])

\* a variant of normalizeAddress that lower-cases before it looks at the case
normalizeAddressLowerFirst(address) ==
  LET pieces == split(toLowerCase(address), ":")
  IN IF ~hasSingleCase(toLowerCase(address)) THEN Throw("Mixed case address")
     ELSE IF Len(pieces) # 2 THEN Throw("Invalid address format")
     ELSE Ok([prefix |-> pieces[1], encodedPayload |-> pieces[2]])

\* function normalizeAddress(address)
normalizeAddress(address) ==
  IF ~hasSingleCase(address) THEN Throw("Mixed case address")
  ELSE LET pieces == split(toLowerCase(address), ":")
       IN IF Len(pieces) # 2 THEN Throw("Invalid address format")
          ELSE Ok([prefix |-> pieces[1], encodedPayload |-> pieces[2]])

\* Array.prototype.slice(0, -8)
sliceDropLast8(a) == SubSeq(a, 1, Len(a) - 8)

\* a variant of decodeKaspaAddress that looks at the prefix after the alphabet
decodeKaspaAddressAlphabetFirst(address, allowedPrefixes) ==
  LET n == normalizeAddress(address)
  IN IF ~n.ok THEN n
     ELSE LET prefix == n.val.prefix
              normalizedPrefixes ==
                {toLowerCase(allowedPrefixes[i]) : i \in 1..Len(allowedPrefixes)}
              decoded == base32Decode(n.val.encodedPayload)
          IN IF ~decoded.ok THEN decoded
             ELSE IF prefix \notin normalizedPrefixes THEN Throw("Invalid address prefix")
             ELSE IF ~hasValidChecksum(prefix, decoded.val)
                  THEN Throw("Invalid checksum")
                  ELSE LET converted ==
                             convertBits(sliceDropLast8(decoded.val), 5, 8, TRUE)
                       IN IF ~converted.ok THEN converted
                          ELSE IF ~(Len(converted.val) > 0)
                               THEN Throw("Address payload is empty")
                               ELSE Ok([prefix |-> prefix,
                                        version |-> converted.val[1],
                                        payload |-> Tail(converted.val)])

\* a variant of decodeKaspaAddress that converts the symbols to bytes before
\* it verifies the checksum
decodeKaspaAddressConvertFirst(address, allowedPrefixes) ==
  LET n == normalizeAddress(address)
  IN IF ~n.ok THEN n
     ELSE LET prefix == n.val.prefix
              normalizedPrefixes ==
                {toLowerCase(allowedPrefixes[i]) : i \in 1..Len(allowedPrefixes)}
          IN IF prefix \notin normalizedPrefixes THEN Throw("Invalid address prefix")
             ELSE LET decoded == base32Decode(n.val.encodedPayload)
                  IN IF ~decoded.ok THEN decoded
                     ELSE LET converted ==
                                convertBits(sliceDropLast8(decoded.val), 5, 8, TRUE)
                          IN IF ~converted.ok THEN converted
                             ELSE IF ~hasValidChecksum(prefix, decoded.val)
                                  THEN Throw("Invalid checksum")
                                  ELSE IF ~(Len(converted.val) > 0)
                                       THEN Throw("Address payload is empty")
                                       ELSE Ok([prefix |-> prefix,
                                                version |-> converted.val[1],
                                                payload |-> Tail(converted.val)])

\* export function decodeKaspaAddress(address, allowedPrefixes)
decodeKaspaAddress(address, allowedPrefixes) ==
  LET n == normalizeAddress(address)
  IN IF ~n.ok THEN n
     ELSE LET prefix == n.val.prefix
              normalizedPrefixes ==
                {toLowerCase(allowedPrefixes[i]) : i \in 1..Len(allowedPrefixes)}
          IN IF prefix \notin normalizedPrefixes THEN Throw("Invalid address prefix")
             ELSE LET decoded == base32Decode(n.val.encodedPayload)
                  IN IF ~decoded.ok THEN decoded
                     ELSE IF ~hasValidChecksum(prefix, decoded.val)
                          THEN Throw("Invalid checksum")
                          ELSE LET converted ==
                                     convertBits(sliceDropLast8(decoded.val), 5, 8, TRUE)
                               IN IF ~converted.ok THEN converted
                                  ELSE IF ~(Len(converted.val) > 0)
                                       THEN Throw("Address payload is empty")
                                       ELSE Ok([prefix |-> prefix,
                                                version |-> converted.val[1],
                                                payload |-> Tail(converted.val)])

\* export function encodeKaspaAddress(payload, prefix, version)
encodeKaspaAddress(payload, prefix, version) ==
  LET normalizedPrefix == toLowerCase(prefix)
      prefixData == prefixToArray(normalizedPrefix) \o <<0>>
      payloadData == convertBits(<<version % 256>> \o payload, 8, 5, FALSE)
  IN IF ~payloadData.ok THEN payloadData
     ELSE LET checksumInput == prefixData \o payloadData.val \o
                                 <<0, 0, 0, 0, 0, 0, 0, 0>>
              checksum == checksumToArray(polymod(checksumInput))
              encoded == base32Encode(payloadData.val \o checksum)
          IN IF ~encoded.ok THEN encoded
             ELSE Ok(normalizedPrefix \o <<":">> \o encoded.val)

\* a variant of scriptPublicKeyOf that ends the version-0 script with the
\* ECDSA opcode
scriptPublicKeyOfOneOpcode(decoded) ==
  IF ~decoded.ok THEN decoded
  ELSE CASE decoded.val.version = 0 ->
              IF Len(decoded.val.payload) = 32
              THEN Ok(<<32>> \o decoded.val.payload \o <<171>>)
              ELSE Throw("Invalid Schnorr public key length")
         [] decoded.val.version = 1 ->
              IF Len(decoded.val.payload) = 33
              THEN Ok(<<33>> \o decoded.val.payload \o <<171>>)
              ELSE Throw("Invalid ECDSA public key length")
         [] decoded.val.version = 8 ->
              IF Len(decoded.val.payload) = 32
              THEN Ok(<<170, 32>> \o decoded.val.payload \o <<135>>)
              ELSE Throw("Invalid script hash length")
         [] OTHER -> Throw("Unsupported address version")

\* a variant of scriptPublicKeyOf that takes a script hash of any length
scriptPublicKeyOfAnyHash(decoded) ==
  IF ~decoded.ok THEN decoded
  ELSE CASE decoded.val.version = 0 ->
              IF Len(decoded.val.payload) = 32
              THEN Ok(<<32>> \o decoded.val.payload \o <<172>>)
              ELSE Throw("Invalid Schnorr public key length")
         [] decoded.val.version = 1 ->
              IF Len(decoded.val.payload) = 33
              THEN Ok(<<33>> \o decoded.val.payload \o <<171>>)
              ELSE Throw("Invalid ECDSA public key length")
         [] decoded.val.version = 8 ->
              Ok(<<170, Len(decoded.val.payload)>> \o decoded.val.payload \o <<135>>)
         [] OTHER -> Throw("Unsupported address version")

\* the switch on decoded.version of addressToScriptPublicKey, for the outcome
\* of the decode (an error of the decode passes through)
scriptPublicKeyOf(decoded) ==
  IF ~decoded.ok THEN decoded
  ELSE CASE decoded.val.version = 0 ->
              IF Len(decoded.val.payload) = 32
              THEN Ok(<<32>> \o decoded.val.payload \o <<172>>)
              ELSE Throw("Invalid Schnorr public key length")
         [] decoded.val.version = 1 ->
              IF Len(decoded.val.payload) = 33
              THEN Ok(<<33>> \o decoded.val.payload \o <<171>>)
              ELSE Throw("Invalid ECDSA public key length")
         [] decoded.val.version = 8 ->
              IF Len(decoded.val.payload) = 32
              THEN Ok(<<170, 32>> \o decoded.val.payload \o <<135>>)
              ELSE Throw("Invalid script hash length")
         [] OTHER -> Throw("Unsupported address version")

\* export function addressToScriptPublicKey(address, allowedPrefixes)
addressToScriptPublicKey(address, allowedPrefixes) ==
  scriptPublicKeyOf(decodeKaspaAddress(address, allowedPrefixes))

(***************************************************************************)
(* Transaction signing engine (src/unnamed/part_000): constants, hex       *)
(***************************************************************************)
SIGHASH_ALL == 1
SIGHASH_NONE == 2
SIGHASH_SINGLE == 4
SIGHASH_ANYONECANPAY == 128
SIGHASH_MASK == 7

\* '0000000000000000000000000000000000000000'
DEFAULT_SUBNETWORK_ID == [i \in 1..40 |-> "0"]

\* Buffer.from('TransactionSigningHash')
TRANSACTION_SIGNING_HASH_KEY == "TransactionSigningHash"

HexDigits == <<"0","1","2","3","4","5","6","7","8","9","a","b","c","d","e","f">>

\* function bytesToHex(bytes): Buffer.from(bytes).toString('hex')
bytesToHex(bytes) ==
  [i \in 1..(2 * Len(bytes)) |->
     IF i % 2 = 1 THEN HexDigits[(bytes[(i + 1) \div 2] \div 16) + 1]
     ELSE HexDigits[(bytes[i \div 2] % 16) + 1]]

HexValues == [ch \in Range(HexDigits) |-> IndexIn(HexDigits, ch) - 1]
IsHexDigit(ch) == toLowerCaseChar(ch) \in DOMAIN HexValues
HexValue(ch) == HexValues[toLowerCaseChar(ch)]

\* function hexToBytes(hex): Buffer.from(hex, 'hex') decodes pairs of hex
\* digits and stops at the first pair that is not one (an odd last digit is
\* dropped).
hexToBytes(hex) ==
  LET pairs == Len(hex) \div 2
      good(k) == IsHexDigit(hex[2 * k - 1]) /\ IsHexDigit(hex[2 * k])
      n == IF \A k \in 1..pairs : good(k) THEN pairs
           ELSE (CHOOSE k \in 1..pairs : ~good(k) /\ \A j \in 1..(k - 1) : good(j)) - 1
  IN [k \in 1..n |-> 16 * HexValue(hex[2 * k - 1]) + HexValue(hex[2 * k])]

RECURSIVE hexDigitsOf(_)
hexDigitsOf(n) ==
  IF n < 16 THEN <<HexDigits[n + 1]>>
  ELSE Append(hexDigitsOf(n \div 16), HexDigits[(n % 16) + 1])

\* a variant of bigintToString that writes the number in radix 16
bigintToStringHex(n) == IF n < 0 THEN <<"-">> \o hexDigitsOf(0 - n) ELSE hexDigitsOf(n)

RECURSIVE digitsOf(_)
digitsOf(n) ==
  IF n < 10 THEN <<DigitChars[n + 1]>>
  ELSE Append(digitsOf(n \div 10), DigitChars[(n % 10) + 1])

\* BigInt.prototype.toString(): the decimal digits, "-" first when negative
bigintToString(n) == IF n < 0 THEN <<"-">> \o digitsOf(0 - n) ELSE digitsOf(n)

\* function toSafeBigInt(value): BigInt(value) of an integer number is the
\* same integer (the amounts of the model are integers)
toSafeBigInt(value) == value

\* secp256k1.utils.isValidPrivateKey(key): a 32-byte scalar s with 0 < s < n.
\* A key is modelled by where its scalar lies.
isValidPrivateKey(key) == key = "inRange"

(***************************************************************************)
(* part_000: HashWriter.  A writer is Ok(chunks) or the error a write      *)
(* threw.  A chunk is [bytes |-> <<...>>] or a 32-byte digest              *)
(* [digest |-> preimage]; adjacent byte chunks are merged, as               *)
(* Buffer.concat makes no difference between them.  blake2b-256 is         *)
(* modelled as injective: a digest is named by its key and preimage.       *)
(***************************************************************************)
NewHashWriter == Ok(<<>>)

\* private writeRaw(buffer), for a buffer of plain bytes
writeRaw(writer, bytes) ==
  IF ~writer.ok THEN writer
  ELSE LET chunks == writer.val
       IN IF Len(chunks) > 0 /\ DOMAIN chunks[Len(chunks)] = {"bytes"}
          THEN Ok([chunks EXCEPT ![Len(chunks)] = [bytes |-> @.bytes \o bytes]])
          ELSE Ok(Append(chunks, [bytes |-> bytes]))

\* writeHash(hash): hash is a digest or plain bytes
writeHash(writer, hash) ==
  IF ~writer.ok THEN writer
  ELSE IF DOMAIN hash = {"bytes"} THEN writeRaw(writer, hash.bytes)
  ELSE Ok(Append(writer.val, hash))

RECURSIVE littleEndian(_, _)
\* the n low bytes of value, least significant first
littleEndian(value, n) ==
  IF n = 0 THEN <<>> ELSE <<value % 256>> \o littleEndian(value \div 256, n - 1)

\* writeUInt8 / writeUInt16LE / writeUInt32LE / writeUInt64LE: Buffer throws a
\* RangeError for a value outside the unsigned range (the upper ends of the
\* 32- and 64-bit ranges lie beyond the integers of the model)
writeUInt(writer, value, n) ==
  IF ~writer.ok THEN writer
  ELSE IF value < 0 \/ (n = 1 /\ value > 255) \/ (n = 2 /\ value > 65535)
       THEN Throw("out of range")
       ELSE writeRaw(writer, littleEndian(value, n))

writeUInt8(writer, value) == writeUInt(writer, value, 1)
writeUInt16LE(writer, value) == writeUInt(writer, value, 2)
writeUInt32LE(writer, value) == writeUInt(writer, value, 4)
writeUInt64LE(writer, value) == writeUInt(writer, value, 8)

\* writeVarBytes(buffer)
writeVarBytes(writer, buffer) == writeRaw(writeUInt64LE(writer, Len(buffer)), buffer)

\* finalize(): blake2b256(this.toBuffer(), TRANSACTION_SIGNING_HASH_KEY)
finalize(writer) ==
  IF ~writer.ok THEN writer
  ELSE Ok([digest |-> writer.val, key |-> TRANSACTION_SIGNING_HASH_KEY])

\* function zeroHash(): new Uint8Array(32)
zeroHash == [bytes |-> [i \in 1..32 |-> 0]]

\* function zeroSubnetworkId(): new Uint8Array(20)
zeroSubnetworkId == [bytes |-> [i \in 1..20 |-> 0]]

\* function isSigHashNone / isSigHashSingle / isSigHashAnyoneCanPay
isSigHashNone(hashType) == hashType % (SIGHASH_MASK + 1) = SIGHASH_NONE
isSigHashSingle(hashType) == hashType % (SIGHASH_MASK + 1) = SIGHASH_SINGLE
isSigHashAnyoneCanPay(hashType) ==
  (hashType \div SIGHASH_ANYONECANPAY) % 2 = 1

\* a variant of hashOutpoint that also writes the input's signature script
hashOutpointWithScript(writer, input) ==
  writeVarBytes(
    writeUInt32LE(writeHash(writer, [bytes |-> hexToBytes(input.previousOutpoint.transactionId)]),
                  input.previousOutpoint.index),
    hexToBytes(input.signatureScript))

\* function hashOutpoint(writer, input)
hashOutpoint(writer, input) ==
  writeUInt32LE(writeHash(writer, [bytes |-> hexToBytes(input.previousOutpoint.transactionId)]),
                input.previousOutpoint.index)

\* function hashOutput(writer, output)
hashOutput(writer, output) ==
  writeVarBytes(
    writeUInt16LE(writeUInt64LE(writer, output.amount), output.scriptPublicKey.version),
    hexToBytes(output.scriptPublicKey.scriptPublicKey))

RECURSIVE forEachWrite(_, _, _, _)
\* items.forEach((item) => write(writer, item)), from item i on
forEachWrite(write(_, _), items, i, writer) ==
  IF i > Len(items) THEN writer
  ELSE forEachWrite(write, items, i + 1, write(writer, items[i]))

(***************************************************************************)
(* part_000: the four memoized sub-hashes and calculateSigHash.            *)
(* A HashCache field is <<>> (absent) or <<digest>>.  Each get...Hash      *)
(* returns [hash |-> Ok(h) or the error thrown, cache |-> the cache after  *)
(* the call, computed |-> the names of the sub-hashes it computed].        *)
(* Input indexes are 1-based here (inputIndex + 1 of the code).            *)
(***************************************************************************)
EmptyHashCache ==
  [previousOutputsHash |-> <<>>, sequencesHash |-> <<>>,
   sigOpCountsHash |-> <<>>, outputsHash |-> <<>>]

Uncached(hash, cache) == [hash |-> hash, cache |-> cache, computed |-> <<>>]

\* a variant of Memoized that stores 32 zero bytes in place of the hash
MemoizedZero(cache, field, computedHash) ==
  IF cache[field] # <<>> THEN Uncached(Ok(cache[field][1]), cache)
  ELSE IF ~computedHash.ok THEN Uncached(computedHash, cache)
  ELSE [hash |-> computedHash,
        cache |-> [cache EXCEPT ![field] = <<[bytes |-> [i \in 1..32 |-> 0]]>>],
        computed |-> <<field>>]

\* a variant of Memoized that never stores the hash
MemoizedNever(cache, field, computedHash) ==
  IF cache[field] # <<>> THEN Uncached(Ok(cache[field][1]), cache)
  ELSE IF ~computedHash.ok THEN Uncached(computedHash, cache)
  ELSE [hash |-> computedHash, cache |-> cache, computed |-> <<field>>]

\* if (!cache[field]) { cache[field] = computedHash }; return cache[field]
Memoized(cache, field, computedHash) ==
  IF cache[field] # <<>> THEN Uncached(Ok(cache[field][1]), cache)
  ELSE IF ~computedHash.ok THEN Uncached(computedHash, cache)
  ELSE [hash |-> computedHash,
        cache |-> [cache EXCEPT ![field] = <<computedHash.val>>],
        computed |-> <<field>>]

writeSequence(writer, input) == writeUInt64LE(writer, input.sequence)
writeSigOpCount(writer, input) == writeUInt8(writer, 1)

\* function getPreviousOutputsHash(transaction, hashType, cache)
getPreviousOutputsHash(transaction, hashType, cache) ==
  IF isSigHashAnyoneCanPay(hashType) THEN Uncached(Ok(zeroHash), cache)
  ELSE Memoized(cache, "previousOutputsHash",
         finalize(forEachWrite(hashOutpoint, transaction.inputs, 1, NewHashWriter)))

\* a variant of getSequencesHash that looks at ANYONECANPAY only
getSequencesHashAnyoneCanPayOnly(transaction, hashType, cache) ==
  IF isSigHashAnyoneCanPay(hashType)
  THEN Uncached(Ok(zeroHash), cache)
  ELSE Memoized(cache, "sequencesHash",
         finalize(forEachWrite(writeSequence, transaction.inputs, 1, NewHashWriter)))

\* function getSequencesHash(transaction, hashType, cache)
getSequencesHash(transaction, hashType, cache) ==
  IF isSigHashSingle(hashType) \/ isSigHashAnyoneCanPay(hashType) \/ isSigHashNone(hashType)
  THEN Uncached(Ok(zeroHash), cache)
  ELSE Memoized(cache, "sequencesHash",
         finalize(forEachWrite(writeSequence, transaction.inputs, 1, NewHashWriter)))

\* function getSigOpCountsHash(transaction, hashType, cache)
getSigOpCountsHash(transaction, hashType, cache) ==
  IF isSigHashAnyoneCanPay(hashType) THEN Uncached(Ok(zeroHash), cache)
  ELSE Memoized(cache, "sigOpCountsHash",
         finalize(forEachWrite(writeSigOpCount, transaction.inputs, 1, NewHashWriter)))

\* a variant of getOutputsHash that keeps the hash of the single output in
\* the cache
getOutputsHashCachesSingle(transaction, inputIndex, hashType, cache) ==
  IF isSigHashNone(hashType) THEN Uncached(Ok(zeroHash), cache)
  ELSE IF isSigHashSingle(hashType)
  THEN IF inputIndex - 1 >= Len(transaction.outputs)
       THEN Uncached(Ok(zeroHash), cache)
       ELSE Memoized(cache, "outputsHash",
              finalize(hashOutput(NewHashWriter, transaction.outputs[inputIndex])))
  ELSE Memoized(cache, "outputsHash",
         finalize(forEachWrite(hashOutput, transaction.outputs, 1, NewHashWriter)))

\* function getOutputsHash(transaction, inputIndex, hashType, cache)
getOutputsHash(transaction, inputIndex, hashType, cache) ==
  IF isSigHashNone(hashType) THEN Uncached(Ok(zeroHash), cache)
  ELSE IF isSigHashSingle(hashType)
  THEN IF inputIndex - 1 >= Len(transaction.outputs)
       THEN Uncached(Ok(zeroHash), cache)
       ELSE Uncached(finalize(hashOutput(NewHashWriter, transaction.outputs[inputIndex])),
                     cache)
  ELSE Memoized(cache, "outputsHash",
         finalize(forEachWrite(hashOutput, transaction.outputs, 1, NewHashWriter)))

\* writer.writeHash(get...Hash(transaction, ..., cache)): the sub-hash is
\* computed (and the cache filled) before the write; an earlier throw means
\* the call is never made.
writeSubHash(st, sub(_)) ==
  IF ~st.writer.ok THEN st
  ELSE LET r == sub(st.cache)
       IN [writer |-> IF r.hash.ok THEN writeHash(st.writer, r.hash.val) ELSE r.hash,
           cache |-> r.cache,
           computed |-> st.computed \o r.computed]

\* function calculateSigHash(transaction, hashType, inputIndex, cache)
calculateSigHash(transaction, hashType, inputIndex, cache) ==
  LET input == transaction.inputs[inputIndex]
      utxo == transaction.utxos[inputIndex]
      prevOuts(c) == getPreviousOutputsHash(transaction, hashType, c)
      seqs(c) == getSequencesHash(transaction, hashType, c)
      sigOps(c) == getSigOpCountsHash(transaction, hashType, c)
      outs(c) == getOutputsHash(transaction, inputIndex, hashType, c)
      s0 == [writer |-> writeUInt16LE(NewHashWriter, transaction.version),
             cache |-> cache, computed |-> <<>>]
      s1 == writeSubHash(writeSubHash(writeSubHash(s0, prevOuts), seqs), sigOps)
      w1 == writeUInt8(
              writeUInt64LE(
                writeUInt64LE(
                  writeVarBytes(
                    writeUInt16LE(hashOutpoint(s1.writer, input), 0),
                    utxo.scriptPublicKey),
                  utxo.amount),
                input.sequence),
              1)
      s2 == writeSubHash([s1 EXCEPT !.writer = w1], outs)
      w2 == writeUInt8(
              writeHash(
                writeUInt64LE(
                  writeHash(writeUInt64LE(s2.writer, transaction.lockTime),
                            zeroSubnetworkId),
                  0),
                zeroHash),
              hashType)
  IN [hash |-> finalize(w2), cache |-> s2.cache, computed |-> s2.computed]

SeqsUpTo(S, n) == UNION {[1..m -> S] : m \in 0..n}

(***************************************************************************)
(* The address codec in use: encode a payload, possibly alter the string,  *)
(* decode it.                                                              *)
(***************************************************************************)
MaxPayloadLen == 2

ByteSamples == {0, 255}
VersionSamples == {0, 8}
PrefixSamples ==
  { <<"k","a","s","p","a">>,
    <<"K","a","s","p","a","T","e","s","t">>,
    <<"k",":","s">> }

\* the characters a character of the address is replaced by: the alphabet,
\* letters and a digit outside it, the separator, upper-case letters
ReplacementChars ==
  Range(CHARSET) \cup {"b", "1", ":"} \cup {"Q", "B"}

\* the allowedPrefixes of a decode: the prefix that was encoded, the default
\* list, or another network only
OtherNetworkPrefixes == << <<"k","a","s","p","a","d","e","v">> >>
AllowedSamples(prefix) == {<<prefix>>, DEFAULT_ALLOWED_PREFIXES, OtherNetworkPrefixes}

CodecIdle ==
  /\ codecPc = "idle" /\ encodeArgs = <<>> /\ addressText = <<>> /\ addressEdit = [kind |-> "none", pos |-> 0]
  /\ allowedArg = <<>> /\ decodeResult = <<>> /\ scriptResult = <<>> /\ addressCheck = <<>>

TxIdle ==
  /\ pc = "idle" /\ params = <<>> /\ workingTx = <<>> /\ loopIndex = 0
  /\ totalInput = 0 /\ totalOutput = 0 /\ hashCache = <<>> /\ returned = <<>>
  /\ thrown = <<>> /\ resolved = 0 /\ signedHashes = <<>>
  /\ hashComputations = <<>> /\ sigCall = <<>>

AppIdle == submission = <<>> /\ sending = <<>> /\ store = <<>>

CodecInit ==
  /\ codecPc = "start"
  /\ encodeArgs \in [payload : SeqsUpTo(ByteSamples, MaxPayloadLen),
                 prefix : PrefixSamples,
                 version : VersionSamples]
  /\ addressText = <<>> /\ addressEdit = [kind |-> "none", pos |-> 0] /\ allowedArg = <<>> /\ decodeResult = <<>>
  /\ scriptResult = <<>> /\ addressCheck = <<>>
  /\ TxIdle /\ AppIdle

\* addressText = encodeKaspaAddress(payload, prefix, version)
Encode ==
  /\ codecPc = "start"
  /\ LET encoded == encodeKaspaAddress(encodeArgs.payload, encodeArgs.prefix, encodeArgs.version)
     IN /\ encoded.ok
        /\ addressText' = encoded.val
  /\ codecPc' = "encoded"
  /\ UNCHANGED <<encodeArgs, addressEdit, allowedArg, decodeResult, scriptResult, addressCheck, txVars, appVars>>

\* the caller replaces one character of the string
ReplaceChar(i, ch) ==
  /\ codecPc = "encoded"
  /\ addressText[i] # ch
  /\ addressText' = [addressText EXCEPT ![i] = ch]
  /\ addressEdit' = [kind |-> "replace", pos |-> i]
  /\ codecPc' = "edited"
  /\ UNCHANGED <<encodeArgs, allowedArg, decodeResult, scriptResult, addressCheck, txVars, appVars>>

SeparatorAt(s) == IF ":" \in Range(s) THEN IndexIn(s, ":") ELSE Len(s) + 1

\* the caller upper-cases the whole string, or only the part before or
\* after the first separator
UpperCase(part) ==
  /\ codecPc = "encoded"
  /\ addressText' = [i \in 1..Len(addressText) |->
                   IF \/ part = "all"
                      \/ part = "prefix" /\ i < SeparatorAt(addressText)
                      \/ part = "payload" /\ i > SeparatorAt(addressText)
                   THEN toUpperCaseChar(addressText[i]) ELSE addressText[i]]
  /\ addressEdit' = [kind |-> part, pos |-> 0]
  /\ codecPc' = "edited"
  /\ UNCHANGED <<encodeArgs, allowedArg, decodeResult, scriptResult, addressCheck, txVars, appVars>>

\* decodeResult = decodeKaspaAddress(addressText, allowedPrefixes)
Decode(allowedPrefixes) ==
  /\ codecPc \in {"encoded", "edited"}
  /\ allowedArg' = allowedPrefixes
  /\ decodeResult' = <<decodeKaspaAddress(addressText, allowedPrefixes)>>
  /\ codecPc' = "decoded"
  /\ UNCHANGED <<encodeArgs, addressText, addressEdit, scriptResult, addressCheck, txVars, appVars>>

CodecNext ==
  \/ Encode
  \/ \E i \in 1..Len(addressText), ch \in ReplacementChars : ReplaceChar(i, ch)
  \/ \E part \in {"all", "prefix", "payload"} : UpperCase(part)
  \/ \E allowedPrefixes \in AllowedSamples(encodeArgs.prefix) :
       Decode(allowedPrefixes)

SpecCodec == CodecInit /\ [][CodecNext]_vars


(***************************************************************************)
(* The spend script of an encoded address: encode a payload under a        *)
(* version, then addressToScriptPublicKey of the string.                   *)
(***************************************************************************)
KeyLengths == {0, 1, 31, 32, 33, 34}
KeyPayloadSamples == {[i \in 1..n |-> b] : n \in KeyLengths, b \in {1, 255}}
ScriptVersionSamples == {0, 1, 2, 8, 255}

ScriptInit ==
  /\ codecPc = "start"
  /\ encodeArgs \in [payload : KeyPayloadSamples,
                     prefix : PrefixSamples,
                     version : ScriptVersionSamples]
  /\ addressText = <<>> /\ addressEdit = [kind |-> "none", pos |-> 0]
  /\ allowedArg = <<>> /\ decodeResult = <<>> /\ scriptResult = <<>> /\ addressCheck = <<>>
  /\ TxIdle /\ AppIdle

\* scriptResult = addressToScriptPublicKey(addressText, allowedPrefixes)
ToScript(allowedPrefixes) ==
  /\ codecPc = "encoded"
  /\ allowedArg' = allowedPrefixes
  /\ scriptResult' = <<addressToScriptPublicKey(addressText, allowedPrefixes)>>
  /\ codecPc' = "scripted"
  /\ UNCHANGED <<encodeArgs, addressText, addressEdit, decodeResult, addressCheck, txVars, appVars>>

ScriptNext ==
  \/ Encode
  \/ \E allowedPrefixes \in {<<encodeArgs.prefix>>, DEFAULT_ALLOWED_PREFIXES} :
       ToScript(allowedPrefixes)

SpecScript == ScriptInit /\ [][ScriptNext]_vars

(***************************************************************************)
(* Decoding a string that was not made by encodeKaspaAddress: any 5-bit    *)
(* symbols, followed by the checksum that makes the string checksum-valid. *)
(***************************************************************************)
MaxSymbols == 8
SymbolSamples == {0, 16, 31}

PaddingInit ==
  /\ codecPc = "start"
  /\ encodeArgs \in [symbols : SeqsUpTo(SymbolSamples, MaxSymbols),
                     prefix : {<<"k","a","s","p","a">>}]
  /\ addressText = <<>> /\ addressEdit = [kind |-> "none", pos |-> 0]
  /\ allowedArg = <<>> /\ decodeResult = <<>> /\ scriptResult = <<>> /\ addressCheck = <<>>
  /\ TxIdle /\ AppIdle

\* the caller writes prefix ':' symbols checksum, the checksum computed as
\* encodeKaspaAddress computes it (lines 184-190)
Craft ==
  /\ codecPc = "start"
  /\ LET prefixData == prefixToArray(encodeArgs.prefix) \o <<0>>
         checksum == checksumToArray(
                       polymod(prefixData \o encodeArgs.symbols \o
                               <<0, 0, 0, 0, 0, 0, 0, 0>>))
     IN addressText' = encodeArgs.prefix \o <<":">> \o
                         base32Encode(encodeArgs.symbols \o checksum).val
  /\ addressEdit' = [kind |-> "crafted", pos |-> 0]
  /\ codecPc' = "encoded"
  /\ UNCHANGED <<encodeArgs, allowedArg, decodeResult, scriptResult, addressCheck, txVars, appVars>>

PaddingNext ==
  \/ Craft
  \/ \E allowedPrefixes \in AllowedSamples(encodeArgs.prefix) :
       Decode(allowedPrefixes)

SpecPadding == PaddingInit /\ [][PaddingNext]_vars

(***************************************************************************)
(* Properties of the address codec (checked under SpecCodec)               *)
(***************************************************************************)
MixedCase == "Mixed case address"
InvalidFormat == "Invalid address format"
UnknownPrefix == "Invalid address prefix"
InvalidCharacter == "Invalid value"
InvalidChecksum == "Invalid checksum"
InvalidPadding == "Input cannot be converted"
EmptyPayload == "Address payload is empty"

Decoded == codecPc = "decoded"
DecodeOutcome == decodeResult[1]
PlainPrefix == ":" \notin Range(encodeArgs.prefix)

\* C1 as stated: decoding the encoder's output with [prefix] allowed returns
\* exactly the prefix, version and payload that were encoded.
C1_RoundTripExact ==
  (Decoded /\ addressEdit.kind = "none" /\ allowedArg = <<encodeArgs.prefix>>)
    => /\ DecodeOutcome.ok
       /\ DecodeOutcome.val.prefix = encodeArgs.prefix
       /\ DecodeOutcome.val.version = encodeArgs.version
       /\ DecodeOutcome.val.payload = encodeArgs.payload

\* C1 amended: for a prefix without ':', decoding the encoder's output with
\* [prefix] allowed returns the lower-cased prefix, the version and the payload.
C1_RoundTripLowerCased ==
  (Decoded /\ addressEdit.kind = "none" /\ allowedArg = <<encodeArgs.prefix>>
     /\ PlainPrefix)
    => /\ DecodeOutcome.ok
       /\ DecodeOutcome.val.prefix = toLowerCase(encodeArgs.prefix)
       /\ DecodeOutcome.val.version = encodeArgs.version
       /\ DecodeOutcome.val.payload = encodeArgs.payload

C1_Witness ==
  /\ Decoded /\ addressEdit.kind = "none" /\ allowedArg = <<encodeArgs.prefix>>
  /\ encodeArgs.prefix # toLowerCase(encodeArgs.prefix)
  /\ Len(encodeArgs.payload) = 2
  /\ DecodeOutcome.ok

\* the 5-bit value of a character of the alphabet, by its place in CHARSET
SymbolOf(ch) == IndexIn(CHARSET, ch) - 1
InAlphabet(str) == \A i \in 1..Len(str) : str[i] \in Range(CHARSET)
\* the checksum over the low 5 bits of the prefix characters, a 0, and every
\* symbol of the part after the separator
ChecksumOver(prefix, encodedPayload) ==
  polymod([i \in 1..Len(prefix) |-> charCodeAt(prefix[i]) % 32] \o <<0>>
          \o [i \in 1..Len(encodedPayload) |-> SymbolOf(encodedPayload[i])])
Lowered == toLowerCase(addressText)
LoweredPrefix == SubSeq(Lowered, 1, SeparatorAt(Lowered) - 1)
LoweredPayload == SubSeq(Lowered, SeparatorAt(Lowered) + 1, Len(Lowered))
OneSeparator == Cardinality({i \in 1..Len(addressText) : addressText[i] = ":"}) = 1
AllowedLowered == {toLowerCase(allowedArg[i]) : i \in 1..Len(allowedArg)}

\* C7: a decode returns a result only if the checksum over (prefix values,
\* 0, all symbols) is 0; a single-case address with one separator, an allowed
\* prefix and symbols of the alphabet whose checksum is not 0 fails with
\* InvalidChecksum.
C7_ChecksumGate ==
  Decoded =>
    /\ DecodeOutcome.ok =>
         /\ OneSeparator /\ InAlphabet(LoweredPayload)
         /\ ChecksumOver(LoweredPrefix, LoweredPayload) = Zero40
    /\ ( /\ hasSingleCase(addressText) /\ OneSeparator
         /\ LoweredPrefix \in AllowedLowered
         /\ InAlphabet(LoweredPayload)
         /\ ChecksumOver(LoweredPrefix, LoweredPayload) # Zero40 )
         => DecodeOutcome = Throw(InvalidChecksum)

C7_Witness ==
  /\ Decoded /\ addressEdit.kind = "replace"
  /\ hasSingleCase(addressText) /\ OneSeparator
  /\ LoweredPrefix \in AllowedLowered
  /\ InAlphabet(LoweredPayload)
  /\ ChecksumOver(LoweredPrefix, LoweredPayload) # Zero40
  /\ DecodeOutcome = Throw(InvalidChecksum)

\* C8 as stated: after any single character of a valid encoded address is
\* replaced by a different one, decoding fails with InvalidChecksum.
C8_AnyReplacement ==
  (Decoded /\ addressEdit.kind = "replace" /\ PlainPrefix
     /\ toLowerCase(encodeArgs.prefix) \in AllowedLowered)
    => DecodeOutcome = Throw(InvalidChecksum)

\* C8 amended: after a single character of the part after the separator is
\* replaced by a different character of the 32-character alphabet, decoding
\* fails with InvalidChecksum.
C8_PayloadReplacement ==
  (Decoded /\ addressEdit.kind = "replace" /\ PlainPrefix
     /\ toLowerCase(encodeArgs.prefix) \in AllowedLowered
     /\ addressEdit.pos > SeparatorAt(addressText)
     /\ addressText[addressEdit.pos] \in Range(CHARSET))
    => DecodeOutcome = Throw(InvalidChecksum)

C8_Witness ==
  /\ Decoded /\ addressEdit.kind = "replace" /\ PlainPrefix
  /\ addressEdit.pos = Len(addressText) - 8
  /\ addressText[addressEdit.pos] \in Range(CHARSET)
  /\ DecodeOutcome = Throw(InvalidChecksum)

HasUpper(str) == \E i \in 1..Len(str) : str[i] \in Range(UpperLetters)
HasLower(str) == \E i \in 1..Len(str) : str[i] \in Range(LowerLetters)

\* C9: the fully upper-cased form of a valid address decodes to the prefix
\* (lower-case), version and payload of the lower-case form; every string
\* with both an upper-case and a lower-case letter fails with MixedCase.
C9_CaseRejection ==
  Decoded =>
    /\ (addressEdit.kind = "all" /\ PlainPrefix
          /\ toLowerCase(encodeArgs.prefix) \in AllowedLowered)
         => /\ DecodeOutcome.ok
            /\ DecodeOutcome.val.prefix = toLowerCase(encodeArgs.prefix)
            /\ DecodeOutcome.val.version = encodeArgs.version
            /\ DecodeOutcome.val.payload = encodeArgs.payload
    /\ (HasUpper(addressText) /\ HasLower(addressText))
         => DecodeOutcome = Throw(MixedCase)

C9_Witness ==
  /\ Decoded /\ addressEdit.kind = "payload"
  /\ HasUpper(addressText) /\ HasLower(addressText)
  /\ DecodeOutcome = Throw(MixedCase)

\* C14 as stated: every address string that does not hold exactly one ':'
\* fails with InvalidFormat.
C14_AnyStringFormat ==
  (Decoded /\ ~OneSeparator) => DecodeOutcome = Throw(InvalidFormat)

\* C14 amended: every address string of a single case that does not hold
\* exactly one ':' (none, or two or more) fails with InvalidFormat; one that
\* mixes cases fails with MixedCase.
C14_SingleCaseFormat ==
  (Decoded /\ ~OneSeparator) =>
    /\ hasSingleCase(addressText) => DecodeOutcome = Throw(InvalidFormat)
    /\ ~hasSingleCase(addressText) => DecodeOutcome = Throw(MixedCase)

C14_Witness ==
  /\ Decoded /\ hasSingleCase(addressText)
  /\ Cardinality({i \in 1..Len(addressText) : addressText[i] = ":"}) = 2
  /\ addressEdit.kind = "replace"
  /\ DecodeOutcome = Throw(InvalidFormat)

\* C15: a single-case address with one ':' whose prefix is not, ignoring
\* case, in allowedPrefixes fails with UnknownPrefix, also when its payload
\* has a character outside the alphabet or a wrong checksum; a prefix that
\* is in allowedPrefixes ignoring case never fails with UnknownPrefix.
C15_UnknownPrefix ==
  (Decoded /\ hasSingleCase(addressText) /\ OneSeparator) =>
    /\ LoweredPrefix \notin AllowedLowered => DecodeOutcome = Throw(UnknownPrefix)
    /\ LoweredPrefix \in AllowedLowered => DecodeOutcome # Throw(UnknownPrefix)

C15_Witness ==
  /\ Decoded /\ hasSingleCase(addressText) /\ OneSeparator
  /\ LoweredPrefix \notin AllowedLowered
  /\ ~InAlphabet(LoweredPayload)
  /\ DecodeOutcome = Throw(UnknownPrefix)

(***************************************************************************)
(* The recipient check of sendTransaction followed by the address          *)
(* resolution of buildSignedTransaction (address.ts lines 219-226 and      *)
(* 198-217, part_001 lines 546-549, walletStore.ts lines 1213-1251): the   *)
(* address is first checked for the selected network, then resolved with   *)
(* that network's prefix as the only allowed prefix.                       *)
(***************************************************************************)
\* the prefix field of the entries of NETWORKS
NetworkSamples ==
  { [prefix |-> <<"k","a","s","p","a">>],
    [prefix |-> <<"k","a","s","p","a","t","e","s","t">>] }

\* function isKaspaAddressForNetwork(address, network)
isKaspaAddressForNetwork(address, network) ==
  decodeKaspaAddress(address, <<network.prefix>>).ok

\* function isValidKaspaAddress(address, network)
isValidKaspaAddress(address, network) ==
  IF address = <<>> THEN FALSE ELSE isKaspaAddressForNetwork(address, network)

RecipientInit ==
  /\ codecPc = "start"
  /\ encodeArgs \in [payload : KeyPayloadSamples,
                     prefix : {n.prefix : n \in NetworkSamples},
                     version : ScriptVersionSamples]
  /\ addressText = <<>> /\ addressEdit = [kind |-> "none", pos |-> 0]
  /\ allowedArg = <<>> /\ decodeResult = <<>> /\ scriptResult = <<>> /\ addressCheck = <<>>
  /\ TxIdle /\ AppIdle

\* the user clears the recipient field
ClearAddress ==
  /\ codecPc = "encoded"
  /\ addressText # <<>>
  /\ addressText' = <<>>
  /\ addressEdit' = [kind |-> "cleared", pos |-> 0]
  /\ UNCHANGED <<codecPc, encodeArgs, allowedArg, decodeResult, scriptResult,
                 addressCheck, txVars, appVars>>

\* sendTransaction: if (!isValidKaspaAddress(toAddress, network)) throw ...
CheckRecipient(network) ==
  /\ codecPc = "encoded"
  /\ allowedArg' = <<network.prefix>>
  /\ addressCheck' = <<isValidKaspaAddress(addressText, network)>>
  /\ codecPc' = IF isValidKaspaAddress(addressText, network) THEN "checked" ELSE "rejected"
  /\ UNCHANGED <<encodeArgs, addressText, addressEdit, decodeResult, scriptResult,
                 txVars, appVars>>

\* buildSignedTransaction: addressToScriptPublicKey(output.address,
\* [network.prefix]) for the address that passed the check
ResolveRecipient ==
  /\ codecPc = "checked"
  /\ scriptResult' = <<addressToScriptPublicKey(addressText, allowedArg)>>
  /\ codecPc' = "scripted"
  /\ UNCHANGED <<encodeArgs, addressText, addressEdit, allowedArg, decodeResult,
                 addressCheck, txVars, appVars>>

RecipientNext ==
  \/ Encode
  \/ ClearAddress
  \/ \E network \in NetworkSamples : CheckRecipient(network)
  \/ ResolveRecipient

SpecRecipient == RecipientInit /\ [][RecipientNext]_vars

(***************************************************************************)
(* KaspaAPI.submitTransaction (kaspa.ts, lines 327-362) with               *)
(* isTransientBroadcastError (lines 25-38).  A message is a sequence of    *)
(* characters.  The server's answer to each POST /transactions is an       *)
(* input: a JSON body (with or without error and transactionId) or a       *)
(* failure of the request with a message.  submission is                   *)
(*   [pc |-> "attempt" | "waiting" | "returned" | "thrown",                *)
(*    attempt |-> the loop counter, requests |-> the POSTs made,           *)
(*    delays |-> the waits started (ms), errors |-> the message caught in  *)
(*    each failed attempt, result |-> <<>> or <<txId>>,                    *)
(*    thrownError |-> <<>> or <<message>>].                                *)
(***************************************************************************)
\* const maxAttempts = 3
maxAttempts == 3

\* String.prototype.includes
includes(text, needle) ==
  \E i \in 0..(Len(text) - Len(needle)) : SubSeq(text, i + 1, i + Len(needle)) = needle

\* the substrings isTransientBroadcastError looks for
TransientMarks ==
  { <<"w","e","b","s","o","c","k","e","t"," ","d","i","s","c","o","n","n","e","c","t","e","d">>,
    <<"c","o","n","n","e","c","t","i","o","n"," ","c","l","o","s","e","d">>,
    <<"c","o","n","n","e","c","t","i","o","n"," ","r","e","s","e","t">>,
    <<"s","e","r","v","i","c","e"," ","u","n","a","v","a","i","l","a","b","l","e">>,
    <<"g","a","t","e","w","a","y"," ","t","i","m","e","o","u","t">>,
    <<"t","i","m","e","o","u","t">>,
    <<"5","0","2">>,
    <<"5","0","3">>,
    <<"5","0","4">> }

\* function isTransientBroadcastError(message)
isTransientBroadcastError(message) ==
  \E mark \in TransientMarks : includes(toLowerCase(message), mark)

GatewayTimeoutMessage ==
  <<"G","a","t","e","w","a","y"," ","T","i","m","e","o","u","t">>
Api503Message ==
  <<"A","P","I"," ","E","r","r","o","r",":"," ","5","0","3"," ","-"," ","b",
    "u","s","y">>
ConnectionResetMessage ==
  <<"r","e","a","d",":"," ","c","o","n","n","e","c","t","i","o","n"," ","r",
    "e","s","e","t">>
FeeTooLowMessage ==
  <<"f","e","e"," ","t","o","o"," ","l","o","w">>
Api400Message ==
  <<"A","P","I"," ","E","r","r","o","r",":"," ","4","0","0"," ","-"," ","b",
    "a","d"," ","r","e","q","u","e","s","t">>
NoTransactionIdMessage ==
  <<"T","r","a","n","s","a","c","t","i","o","n"," ","s","u","b","m","i","s",
    "s","i","o","n"," ","d","i","d"," ","n","o","t"," ","r","e","t","u","r",
    "n"," ","a"," ","t","r","a","n","s","a","c","t","i","o","n"," ","i",
    "d">>
WebSocketMessage ==
  <<"W","e","b","S","o","c","k","e","t"," ","d","i","s","c","o","n","n","e","c","t","e","d">>

MessageSamples ==
  {GatewayTimeoutMessage, Api503Message, ConnectionResetMessage, WebSocketMessage,
   FeeTooLowMessage, Api400Message}
TxIdSamples == {<<"t","x","1">>, <<"t","x","2">>}

\* what one POST /transactions may give: a JSON body, whose error and
\* transactionId may be missing (<<>>), or a failed request
ResponseSamples ==
  [kind : {"json"}, error : {<<>>} \cup MessageSamples,
   transactionId : {<<>>} \cup TxIdSamples, message : {<<>>}]
  \cup [kind : {"failed"}, error : {<<>>}, transactionId : {<<>>},
        message : MessageSamples]

\* lines 332-346: the body of the try block
attemptOutcome(response) ==
  IF response.kind = "failed" THEN Throw(response.message)
  ELSE IF response.error # <<>> THEN Throw(response.error)
  ELSE IF response.transactionId = <<>> THEN Throw(NoTransactionIdMessage)
  ELSE Ok(response.transactionId)

\* a variant of shouldRetry that retries after any error
shouldRetryAnyError(attempt, message) == attempt < maxAttempts

\* line 352: attempt < maxAttempts && isTransientBroadcastError(message)
shouldRetry(attempt, message) ==
  attempt < maxAttempts /\ isTransientBroadcastError(message)

RECURSIVE pow2(_)
pow2(n) == IF n = 0 THEN 1 ELSE 2 * pow2(n - 1)

\* line 353: 400 * Math.pow(2, attempt - 1)
backoffDelay(attempt) == 400 * pow2(attempt - 1)

SubmitInit ==
  /\ CodecIdle /\ TxIdle
  /\ sending = <<>> /\ store = <<>>
  /\ submission = [pc |-> "attempt", attempt |-> 1, requests |-> 0, delays |-> <<>>,
                   errors |-> <<>>, result |-> <<>>, thrownError |-> <<>>]

\* one round of the loop up to the return, the throw or the call of delay
Request(response) ==
  /\ submission # <<>>
  /\ submission.pc = "attempt"
  /\ submission.attempt <= maxAttempts
  /\ LET outcome == attemptOutcome(response)
     IN submission' =
          IF outcome.ok
          THEN [submission EXCEPT !.pc = "returned",
                                  !.requests = @ + 1,
                                  !.result = <<outcome.val>>]
          ELSE IF shouldRetry(submission.attempt, outcome.err)
          THEN [submission EXCEPT !.pc = "waiting",
                                  !.requests = @ + 1,
                                  !.errors = Append(@, outcome.err),
                                  !.delays = Append(@, backoffDelay(submission.attempt))]
          ELSE [submission EXCEPT !.pc = "thrown",
                                  !.requests = @ + 1,
                                  !.errors = Append(@, outcome.err),
                                  !.thrownError = <<outcome.err>>]
  /\ UNCHANGED <<codecVars, txVars, sending, store>>

\* the delay is over: continue with attempt + 1
DelayElapsed ==
  /\ submission # <<>>
  /\ submission.pc = "waiting"
  /\ submission' = [submission EXCEPT !.pc = "attempt", !.attempt = @ + 1]
  /\ UNCHANGED <<codecVars, txVars, sending, store>>

SubmitNext ==
  \/ \E response \in ResponseSamples : Request(response)
  \/ DelayElapsed

SpecSubmit == SubmitInit /\ [][SubmitNext]_vars

(***************************************************************************)
(* sendTransaction of the wallet store (walletStore.ts, lines 1204-1285)   *)
(* with parseRequiredFeeFromError (186-192), selectUtxos (194-209) and     *)
(* normalizeTransactionError (164-184).  The steps are the stretches of    *)
(* code between two awaits.  sending is                                    *)
(*   [pc |-> "start" | "broadcasting" | "fetchBalance" | "balance" |       *)
(*           "transactions" | "returned" | "failed",                       *)
(*    request |-> the arguments and the store fields read at line 1208,    *)
(*    attempt, feeToUse |-> the loop variables,                            *)
(*    fees |-> the fee of each transaction built,                          *)
(*    totals |-> the total of the UTXOs selected for each of them,         *)
(*    errors |-> the message of each failed broadcast,                     *)
(*    isLoading, error |-> the store fields (error is <<>> for null),      *)
(*    txId |-> <<>> or <<id>>, thrown |-> <<>> or <<message>>].            *)
(***************************************************************************)
RequiredAmountOf ==
  <<"r","e","q","u","i","r","e","d"," ","a","m","o","u","n","t"," ","o",
    "f">>

\* \s and \d of the regular expression
IsWhitespace(ch) == ch \in {" "}
IsDigit(ch) == ch \in Range(DigitChars)

RECURSIVE spacesEnd(_, _)
\* the first position from i on that holds no whitespace
spacesEnd(text, i) ==
  IF i <= Len(text) /\ IsWhitespace(text[i]) THEN spacesEnd(text, i + 1) ELSE i

RECURSIVE digitsEnd(_, _)
\* the first position from i on that holds no digit
digitsEnd(text, i) ==
  IF i <= Len(text) /\ IsDigit(text[i]) THEN digitsEnd(text, i + 1) ELSE i

RECURSIVE numberOfDigits(_)
\* Number(match[1]) for a string of digits
numberOfDigits(digits) ==
  IF digits = <<>> THEN 0
  ELSE 10 * numberOfDigits(SubSeq(digits, 1, Len(digits) - 1))
       + (IndexIn(DigitChars, digits[Len(digits)]) - 1)

\* message.match(/required amount of\s+(\d+)/i): <<>> for no match, else
\* <<the digits captured>> of the leftmost match
matchRequiredAmount(message) ==
  LET lowered == toLowerCase(message)
      n == Len(RequiredAmountOf)
      matchesAt(i) ==
        /\ SubSeq(lowered, i, i + n - 1) = RequiredAmountOf
        /\ spacesEnd(message, i + n) > i + n
        /\ digitsEnd(message, spacesEnd(message, i + n)) > spacesEnd(message, i + n)
      starts == {i \in 1..(Len(message) - n + 1) : matchesAt(i)}
  IN IF starts = {} THEN <<>>
     ELSE LET first == CHOOSE i \in starts : \A j \in starts : i <= j
              from == spacesEnd(message, first + n)
          IN <<SubSeq(message, from, digitsEnd(message, from) - 1)>>

\* function parseRequiredFeeFromError(message): <<>> for null
parseRequiredFeeFromError(message) ==
  IF matchRequiredAmount(message) = <<>> THEN <<>>
  ELSE <<numberOfDigits(matchRequiredAmount(message)[1])>>

RECURSIVE sortByAmountDescending(_)
\* [...utxos].sort((a, b) => b.amount - a.amount): a stable sort
sortByAmountDescending(utxos) ==
  IF utxos = <<>> THEN <<>>
  ELSE LET top == CHOOSE i \in 1..Len(utxos) :
                    /\ \A j \in 1..Len(utxos) : utxos[j].amount <= utxos[i].amount
                    /\ \A j \in 1..(i - 1) : utxos[j].amount < utxos[i].amount
       IN <<utxos[top]>>
          \o sortByAmountDescending(SubSeq(utxos, 1, top - 1)
                                    \o SubSeq(utxos, top + 1, Len(utxos)))

RECURSIVE takeUntilCovered(_, _, _, _)
\* the loop of selectUtxos over the sorted list, from item i on
takeUntilCovered(sorted, targetAmount, i, acc) ==
  IF i > Len(sorted) THEN acc
  ELSE LET next == [selected |-> Append(acc.selected, sorted[i]),
                    total |-> acc.total + sorted[i].amount]
       IN IF next.total >= targetAmount THEN next
          ELSE takeUntilCovered(sorted, targetAmount, i + 1, next)

\* function selectUtxos(utxos, targetAmount)
selectUtxos(utxos, targetAmount) ==
  takeUntilCovered(sortByAmountDescending(utxos), targetAmount, 1,
                   [selected |-> <<>>, total |-> 0])

WalletNotInitialized ==
  <<"W","a","l","l","e","t"," ","n","o","t"," ","i","n","i","t","i","a","l",
    "i","z","e","d">>
InvalidRecipient ==
  <<"I","n","v","a","l","i","d"," ","r","e","c","i","p","i","e","n","t"," ",
    "a","d","d","r","e","s","s"," ","f","o","r"," ","s","e","l","e","c","t",
    "e","d"," ","n","e","t","w","o","r","k">>
NoActiveAccount ==
  <<"N","o"," ","a","c","t","i","v","e"," ","a","c","c","o","u","n","t"," ",
    "s","e","l","e","c","t","e","d">>
InsufficientBalanceMessage ==
  <<"I","n","s","u","f","f","i","c","i","e","n","t"," ","b","a","l","a","n",
    "c","e">>
FailedToBroadcast ==
  <<"T","r","a","n","s","a","c","t","i","o","n"," ","f","a","i","l","e","d",
    " ","t","o"," ","b","r","o","a","d","c","a","s","t">>
OutputAmountMessage ==
  <<"O","u","t","p","u","t"," ","a","m","o","u","n","t"," ","m","u","s","t",
    " ","b","e"," ","p","o","s","i","t","i","v","e">>
RecipientScriptMessage ==
  <<"I","n","v","a","l","i","d"," ","S","c","h","n","o","r","r"," ","p","u",
    "b","l","i","c"," ","k","e","y"," ","l","e","n","g","t","h">>
NodeDisconnectedText ==
  <<"B","r","o","a","d","c","a","s","t"," ","t","e","m","p","o","r","a","r",
    "i","l","y"," ","f","a","i","l","e","d"," ","b","e","c","a","u","s","e",
    " ","t","h","e"," ","p","u","b","l","i","c"," ","K","a","s","p","a"," ",
    "n","o","d","e"," ","d","i","s","c","o","n","n","e","c","t","e","d",".",
    " ","P","l","e","a","s","e"," ","t","r","y"," ","a","g","a","i","n"," ",
    "i","n"," ","a"," ","f","e","w"," ","s","e","c","o","n","d","s",".">>
ApiUnavailableText ==
  <<"T","h","e"," ","s","e","l","e","c","t","e","d"," ","n","e","t","w","o",
    "r","k"," ","A","P","I"," ","i","s"," ","t","e","m","p","o","r","a","r",
    "i","l","y"," ","u","n","a","v","a","i","l","a","b","l","e","."," ","P",
    "l","e","a","s","e"," ","r","e","t","r","y"," ","s","h","o","r","t","l",
    "y",".">>
OrphanText ==
  <<"T","r","a","n","s","a","c","t","i","o","n"," ","w","a","s"," ","r","e",
    "j","e","c","t","e","d"," ","a","s"," ","o","r","p","h","a","n","."," ",
    "R","e","f","r","e","s","h"," ","b","a","l","a","n","c","e","/","U","T",
    "X","O","s"," ","a","n","d"," ","t","r","y"," ","a","g","a","i","n",
    ".">>
FeeTooLowText ==
  <<"T","r","a","n","s","a","c","t","i","o","n"," ","f","e","e"," ","w","a",
    "s"," ","t","o","o"," ","l","o","w"," ","f","o","r"," ","c","u","r","r",
    "e","n","t"," ","n","e","t","w","o","r","k"," ","c","o","n","d","i","t",
    "i","o","n","s","."," ","P","l","e","a","s","e"," ","r","e","t","r","y",
    ";"," ","t","h","e"," ","w","a","l","l","e","t"," ","n","o","w"," ","a",
    "u","t","o","-","a","d","j","u","s","t","s"," ","f","e","e",".">>
FailedToFetchBalance ==
  <<"F","a","i","l","e","d"," ","t","o"," ","f","e","t","c","h"," ","b","a",
    "l","a","n","c","e">>
WebsocketDisconnectedMark ==
  <<"w","e","b","s","o","c","k","e","t"," ","d","i","s","c","o","n","n","e",
    "c","t","e","d">>
ConnectionClosedMark ==
  <<"c","o","n","n","e","c","t","i","o","n"," ","c","l","o","s","e","d">>
ServiceUnavailableMark ==
  <<"s","e","r","v","i","c","e"," ","u","n","a","v","a","i","l","a","b","l",
    "e">>
Mark503 ==
  <<"5","0","3">>
OrphanMark ==
  <<"o","r","p","h","a","n"," ","i","s"," ","d","i","s","a","l","l","o","w",
    "e","d">>
UnderRequiredMark ==
  <<"u","n","d","e","r"," ","t","h","e"," ","r","e","q","u","i","r","e","d",
    " ","a","m","o","u","n","t">>

\* function normalizeTransactionError(message)
normalizeTransactionError(message) ==
  LET normalized == toLowerCase(message)
  IN IF includes(normalized, WebsocketDisconnectedMark)
        \/ includes(normalized, ConnectionClosedMark)
     THEN NodeDisconnectedText
     ELSE IF includes(normalized, ServiceUnavailableMark) \/ includes(normalized, Mark503)
     THEN ApiUnavailableText
     ELSE IF includes(normalized, OrphanMark) THEN OrphanText
     ELSE IF includes(normalized, UnderRequiredMark) THEN FeeTooLowText
     ELSE message

Under2036Message ==
  <<"f","e","e"," ","1","0","0","0"," ","i","s"," ","u","n","d","e","r"," ",
    "t","h","e"," ","r","e","q","u","i","r","e","d"," ","a","m","o","u","n",
    "t"," ","o","f"," ","2","0","3","6">>
Under900Message ==
  <<"f","e","e"," ","i","s"," ","u","n","d","e","r"," ","t","h","e"," ","r",
    "e","q","u","i","r","e","d"," ","a","m","o","u","n","t"," ","o","f"," ",
    "9","0","0">>
Under9000Message ==
  <<"R","e","j","e","c","t","e","d",":"," ","u","n","d","e","r"," ","t","h",
    "e"," ","R","e","q","u","i","r","e","d"," ","A","m","o","u","n","t"," ",
    "O","f"," "," ","9","0","0","0"," ","s","o","m","p","i">>
Under2050Message ==
  <<"u","n","d","e","r"," ","t","h","e"," ","r","e","q","u","i","r","e","d",
    " ","a","m","o","u","n","t"," ","o","f"," ","2","0","5","0">>
Under2100Message ==
  <<"u","n","d","e","r"," ","t","h","e"," ","r","e","q","u","i","r","e","d",
    " ","a","m","o","u","n","t"," ","o","f"," ","2","1","0","0">>
NoAmountMessage ==
  <<"u","n","d","e","r"," ","t","h","e"," ","r","e","q","u","i","r","e","d",
    " ","a","m","o","u","n","t"," ","o","f"," ","f","e","e">>
OrphanMessage ==
  <<"o","r","p","h","a","n"," ","i","s"," ","d","i","s","a","l","l","o","w",
    "e","d">>

\* what api.broadcastTransaction may reject with
BroadcastErrorSamples ==
  {Under2036Message, Under900Message, Under9000Message, Under2050Message,
   Under2100Message, NoAmountMessage, OrphanMessage, Api503Message}

UtxoSetSamples ==
  { <<>>,
    << [outpointIndex |-> 0, amount |-> 3000] >>,
    << [outpointIndex |-> 0, amount |-> 1200], [outpointIndex |-> 1, amount |-> 6000] >>,
    << [outpointIndex |-> 0, amount |-> 4000], [outpointIndex |-> 1, amount |-> 4000],
       [outpointIndex |-> 2, amount |-> 9000] >> }

\* the arguments of the call and what it reads from the store and from the
\* address codec: recipientValid is isValidKaspaAddress(toAddress, network),
\* recipientResolves is whether addressToScriptPublicKey(toAddress) succeeds
SendRequestSamples ==
  [utxos : UtxoSetSamples, amount : {0, 2000}, fee : {1000, 2050},
   wallet : {"set", "null"}, account : {"set", "null"},
   recipientValid : BOOLEAN, recipientResolves : BOOLEAN,
   hasAddress : BOOLEAN]

\* buildSignedTransaction for the one output of the request, by its
\* contract: the selected inputs cover amount + fee, their addresses and the
\* change address are the wallet's own
buildOutcome(request, fee) ==
  IF request.amount <= 0 THEN Throw(OutputAmountMessage)
  ELSE IF ~request.recipientResolves THEN Throw(RecipientScriptMessage)
  ELSE Ok([fee |-> fee])

\* the catch block of lines 1278-1284
failSend(s, message) ==
  [s EXCEPT !.pc = "failed", !.isLoading = FALSE,
            !.error = <<normalizeTransactionError(message)>>,
            !.thrown = <<message>>]

\* lines 1226-1251: from the top of the loop to the call of
\* api.broadcastTransaction, or to the throw
beginAttempt(s) ==
  IF s.attempt > maxAttempts THEN failSend(s, FailedToBroadcast)
  ELSE LET targetAmount == s.request.amount + s.feeToUse
           picked == selectUtxos(s.request.utxos, targetAmount)
       IN IF Len(picked.selected) = 0 \/ picked.total < targetAmount
          THEN failSend(s, InsufficientBalanceMessage)
          ELSE IF ~buildOutcome(s.request, s.feeToUse).ok
          THEN failSend(s, buildOutcome(s.request, s.feeToUse).err)
          ELSE [s EXCEPT !.pc = "broadcasting",
                         !.fees = Append(@, s.feeToUse),
                         !.totals = Append(@, picked.total)]

\* a variant of shouldRebuild that does not look at the attempts left
shouldRebuildNoLimit(requiredFee, feeToUse, attempt) ==
  requiredFee # <<>> /\ requiredFee[1] > feeToUse

\* line 1260: requiredFee !== null && requiredFee > feeToUse && attempt < maxAttempts
shouldRebuild(requiredFee, feeToUse, attempt) ==
  requiredFee # <<>> /\ requiredFee[1] > feeToUse /\ attempt < maxAttempts

SendInit ==
  /\ CodecIdle /\ TxIdle
  /\ submission = <<>> /\ store = <<>>
  /\ \E request \in SendRequestSamples :
       sending = [pc |-> "start", request |-> request, attempt |-> 1,
                  feeToUse |-> request.fee, fees |-> <<>>, totals |-> <<>>,
                  errors |-> <<>>, isLoading |-> FALSE, error |-> <<>>,
                  txId |-> <<>>, thrown |-> <<>>]

\* lines 1205-1251: the call up to its first await
SendStart ==
  /\ sending # <<>>
  /\ sending.pc = "start"
  /\ LET s == [sending EXCEPT !.isLoading = TRUE, !.error = <<>>]
     IN sending' =
          IF s.request.wallet = "null" THEN failSend(s, WalletNotInitialized)
          ELSE IF ~s.request.recipientValid THEN failSend(s, InvalidRecipient)
          ELSE IF s.request.account = "null" THEN failSend(s, NoActiveAccount)
          ELSE beginAttempt(s)
  /\ UNCHANGED <<codecVars, txVars, submission, store>>

\* line 1254: the broadcast gave a transaction id; lines 1272-1273
BroadcastAccepted(txId) ==
  /\ sending # <<>>
  /\ sending.pc = "broadcasting"
  /\ sending' = [sending EXCEPT !.txId = <<txId>>, !.isLoading = FALSE,
                                !.pc = "fetchBalance"]
  /\ UNCHANGED <<codecVars, txVars, submission, store>>

\* lines 1256-1266: the broadcast failed; either the next round of the loop
\* up to its broadcast, or the throw
BroadcastRejected(message) ==
  /\ sending # <<>>
  /\ sending.pc = "broadcasting"
  /\ LET s == [sending EXCEPT !.errors = Append(@, message)]
         requiredFee == parseRequiredFeeFromError(message)
     IN sending' =
          IF shouldRebuild(requiredFee, s.feeToUse, s.attempt)
          THEN beginAttempt([s EXCEPT !.feeToUse = requiredFee[1] + 50,
                                      !.attempt = @ + 1])
          ELSE failSend(s, message)
  /\ UNCHANGED <<codecVars, txVars, submission, store>>

\* await get().fetchBalance(), up to its await (lines 1089-1094)
FetchBalanceCalled ==
  /\ sending # <<>>
  /\ sending.pc = "fetchBalance"
  /\ sending' =
       IF ~sending.request.hasAddress
       THEN [sending EXCEPT !.pc = "transactions"]
       ELSE [sending EXCEPT !.pc = "balance", !.isLoading = TRUE]
  /\ UNCHANGED <<codecVars, txVars, submission, store>>

\* api.getAddressInfo answered or failed (lines 1095-1108)
FetchBalanceDone(ok) ==
  /\ sending # <<>>
  /\ sending.pc = "balance"
  /\ sending' =
       IF ok THEN [sending EXCEPT !.pc = "transactions", !.isLoading = FALSE]
       ELSE [sending EXCEPT !.pc = "transactions", !.isLoading = FALSE,
                            !.error = <<FailedToFetchBalance>>]
  /\ UNCHANGED <<codecVars, txVars, submission, store>>

\* await get().fetchTransactions() and return txId (lines 1274-1276)
FetchTransactionsDone ==
  /\ sending # <<>>
  /\ sending.pc = "transactions"
  /\ sending' = [sending EXCEPT !.pc = "returned"]
  /\ UNCHANGED <<codecVars, txVars, submission, store>>

SendNext ==
  \/ SendStart
  \/ \E txId \in TxIdSamples : BroadcastAccepted(txId)
  \/ \E message \in BroadcastErrorSamples : BroadcastRejected(message)
  \/ FetchBalanceCalled
  \/ \E ok \in BOOLEAN : FetchBalanceDone(ok)
  \/ FetchTransactionsDone

SpecSend == SendInit /\ [][SendNext]_vars

(***************************************************************************)
(* The wallet store under lockWallet, fetchBalance and fetchTransactions   *)
(* (walletStore.ts, lines 685-716, 1089-1120, 292-295).  The two fetches   *)
(* are asynchronous: between the call and the answer of the API any other  *)
(* operation of the store may run.  store is                               *)
(*   [isLocked, needsMigration, wallet, address, balance, utxos,           *)
(*    transactions, isLoading, error |-> the fields of the store,          *)
(*    sessionPassword, sessionVault |-> the module-level references,       *)
(*    balanceRequests, transactionRequests |-> the number of calls of      *)
(*    api.getAddressInfo / api.getTransactions not yet answered].          *)
(***************************************************************************)
MaxInFlight == 2

LockNeedsPassword ==
  <<"S","e","t"," ","a"," ","p","a","s","s","w","o","r","d"," ","a","n","d",
    " ","e","n","c","r","y","p","t"," ","t","h","i","s"," ","w","a","l","l",
    "e","t"," ","b","e","f","o","r","e"," ","l","o","c","k","i","n","g"," ",
    "o","r"," ","l","o","g","g","i","n","g"," ","o","u","t",".">>

\* the address of the active account
OwnAddress == encodeKaspaAddress([i \in 1..32 |-> 1], <<"k","a","s","p","a">>, 0).val
\* what api.getAddressInfo may answer: balance and UTXOs, or <<>> for a
\* failure
AddressInfoSamples ==
  { <<>>,
    <<[balance |-> 0, utxos |-> <<>>]>>,
    <<[balance |-> 3000, utxos |-> <<[outpointIndex |-> 0, amount |-> 3000]>>]>> }
\* what api.getTransactions may answer, or <<>> for a failure
TransactionListSamples == { <<>>, << <<>> >>, << <<"tx1">> >> }

\* the store with an unlocked wallet: after applyActiveWalletToState, or,
\* with needsMigration, after a legacy wallet was loaded (line 378: a vault
\* but no password)
StoreInit ==
  /\ CodecIdle /\ TxIdle
  /\ submission = <<>> /\ sending = <<>>
  /\ \E needsMigration \in BOOLEAN, info \in AddressInfoSamples \ {<<>>},
        txs \in TransactionListSamples \ {<<>>} :
       store = [isLocked |-> FALSE, needsMigration |-> needsMigration,
                wallet |-> "set", address |-> OwnAddress,
                balance |-> info[1].balance, utxos |-> info[1].utxos,
                transactions |-> txs[1], isLoading |-> FALSE, error |-> <<>>,
                sessionPassword |-> IF needsMigration THEN "null" ELSE "set",
                sessionVault |-> "set",
                balanceRequests |-> 0, transactionRequests |-> 0]

\* function clearSessionReferences()
clearSessionReferences(st) ==
  [st EXCEPT !.sessionPassword = "null", !.sessionVault = "null"]

\* lockWallet: the store after the call
lockWallet(st) ==
  IF st.needsMigration THEN [st EXCEPT !.error = <<LockNeedsPassword>>]
  ELSE [clearSessionReferences(st) EXCEPT
          !.isLocked = TRUE, !.wallet = "null", !.balance = 0, !.utxos = <<>>,
          !.transactions = <<>>, !.address = <<>>, !.isLoading = FALSE,
          !.error = <<>>]

LockWallet ==
  /\ store # <<>>
  /\ store' = lockWallet(store)
  /\ UNCHANGED <<codecVars, txVars, submission, sending>>

\* fetchBalance up to await api.getAddressInfo(address)
FetchBalance ==
  /\ store # <<>>
  /\ store.balanceRequests < MaxInFlight
  /\ store' = IF store.address = <<>> THEN store
              ELSE [store EXCEPT !.isLoading = TRUE, !.balanceRequests = @ + 1]
  /\ UNCHANGED <<codecVars, txVars, submission, sending>>

\* fetchBalance from the answer of api.getAddressInfo on
BalanceAnswered(info) ==
  /\ store # <<>>
  /\ store.balanceRequests > 0
  /\ store' =
       IF info # <<>>
       THEN [store EXCEPT !.balance = info[1].balance, !.utxos = info[1].utxos,
                          !.isLoading = FALSE, !.balanceRequests = @ - 1]
       ELSE [store EXCEPT !.isLoading = FALSE, !.error = <<FailedToFetchBalance>>,
                          !.balanceRequests = @ - 1]
  /\ UNCHANGED <<codecVars, txVars, submission, sending>>

\* fetchTransactions up to await api.getTransactions(address, 50)
FetchTransactions ==
  /\ store # <<>>
  /\ store.transactionRequests < MaxInFlight
  /\ store' = IF store.address = <<>> THEN store
              ELSE [store EXCEPT !.transactionRequests = @ + 1]
  /\ UNCHANGED <<codecVars, txVars, submission, sending>>

\* fetchTransactions from the answer of api.getTransactions on
TransactionsAnswered(txs) ==
  /\ store # <<>>
  /\ store.transactionRequests > 0
  /\ store' =
       IF txs # <<>>
       THEN [store EXCEPT !.transactions = txs[1], !.transactionRequests = @ - 1]
       ELSE [store EXCEPT !.transactionRequests = @ - 1]
  /\ UNCHANGED <<codecVars, txVars, submission, sending>>

StoreNext ==
  \/ LockWallet
  \/ FetchBalance
  \/ \E info \in AddressInfoSamples : BalanceAnswered(info)
  \/ FetchTransactions
  \/ \E txs \in TransactionListSamples : TransactionsAnswered(txs)

SpecStore == StoreInit /\ [][StoreNext]_vars

(***************************************************************************)
(* Properties of addressToScriptPublicKey (checked under SpecScript)       *)
(***************************************************************************)
InvalidSchnorrKeyLength == "Invalid Schnorr public key length"
InvalidEcdsaKeyLength == "Invalid ECDSA public key length"
InvalidKeyLength == {InvalidSchnorrKeyLength, InvalidEcdsaKeyLength}
InvalidHashLength == "Invalid script hash length"
UnsupportedVersion == "Unsupported address version"

Scripted == codecPc = "scripted"
ScriptOutcome == scriptResult[1]

\* C12: the spend script of a version-0 address with a 32-byte key is the
\* 34 bytes 0x20 || key || 0xac, and whenever a version-0 address yields a
\* script at all it is that one.
C12_SchnorrScript ==
  (Scripted /\ PlainPrefix /\ encodeArgs.version = 0) =>
    /\ Len(encodeArgs.payload) = 32 =>
         /\ ScriptOutcome.ok
         /\ Len(ScriptOutcome.val) = 34
         /\ ScriptOutcome.val = <<32>> \o encodeArgs.payload \o <<172>>
    /\ ScriptOutcome.ok =>
         /\ Len(ScriptOutcome.val) = 34
         /\ ScriptOutcome.val[1] = 32
         /\ SubSeq(ScriptOutcome.val, 2, 33) = encodeArgs.payload
         /\ ScriptOutcome.val[34] = 172

C12_Witness ==
  /\ Scripted /\ encodeArgs.version = 0 /\ Len(encodeArgs.payload) = 32
  /\ encodeArgs.payload[1] = 255
  /\ ScriptOutcome.ok /\ Len(ScriptOutcome.val) = 34

\* C13: version 1 with 33 bytes gives 0x21 || payload || 0xab, version 8
\* with 32 bytes gives 0xaa 0x20 || payload || 0x87; another length fails
\* with InvalidKeyLength (versions 0, 1) or InvalidHashLength (version 8),
\* another version fails with UnsupportedVersion; a failure carries no script.
C13_VersionDispatch ==
  (Scripted /\ PlainPrefix) =>
    LET v == encodeArgs.version
        n == Len(encodeArgs.payload)
    IN /\ (v = 1 /\ n = 33) =>
            ScriptOutcome = Ok(<<33>> \o encodeArgs.payload \o <<171>>)
       /\ (v = 8 /\ n = 32) =>
            ScriptOutcome = Ok(<<170, 32>> \o encodeArgs.payload \o <<135>>)
       /\ (v = 0 /\ n # 32) => ScriptOutcome = Throw(InvalidSchnorrKeyLength)
       /\ (v = 1 /\ n # 33) => ScriptOutcome = Throw(InvalidEcdsaKeyLength)
       /\ (v \in {0, 1} /\ ~ScriptOutcome.ok) => ScriptOutcome.err \in InvalidKeyLength
       /\ (v = 8 /\ n # 32) => ScriptOutcome = Throw(InvalidHashLength)
       /\ (v \notin {0, 1, 8}) => ScriptOutcome = Throw(UnsupportedVersion)
       /\ ~ScriptOutcome.ok => DOMAIN ScriptOutcome = {"ok", "err"}

C13_Witness ==
  /\ Scripted /\ PlainPrefix
  /\ encodeArgs.version = 8 /\ Len(encodeArgs.payload) = 33
  /\ ScriptOutcome = Throw(InvalidHashLength)

(***************************************************************************)
(* Properties of the strict re-packing (checked under SpecPadding)         *)
(***************************************************************************)
\* the bits left after the last full byte of n 5-bit symbols
LeftoverBits(n) == (5 * n) % 8
\* the leftover bits number 5 or more, or one of them is 1 (fewer than 5
\* leftover bits all lie in the last symbol)
BadPadding(symbols) ==
  LET left == LeftoverBits(Len(symbols))
  IN \/ left >= 5
     \/ left > 0 /\ symbols[Len(symbols)] % (2 ^ left) # 0

\* C16: a checksum-valid address under an allowed prefix fails with
\* InvalidPadding exactly when the bits left after the last full byte of its
\* n symbols (the 8 checksum symbols apart) number 5 or more or are not all
\* zero; otherwise the symbols pack into floor(5n/8) bytes, the first of
\* which is the version (with no symbol there is no byte, and the address
\* fails as empty).
C16_StrictPadding ==
  (Decoded /\ addressEdit.kind = "crafted" /\ LoweredPrefix \in AllowedLowered) =>
    LET symbols == encodeArgs.symbols
        n == Len(symbols)
    IN /\ ChecksumOver(LoweredPrefix, LoweredPayload) = Zero40
       /\ (DecodeOutcome = Throw(InvalidPadding)) <=> BadPadding(symbols)
       /\ ~BadPadding(symbols) =>
            IF n = 0 THEN DecodeOutcome = Throw(EmptyPayload)
            ELSE /\ DecodeOutcome.ok
                 /\ 1 + Len(DecodeOutcome.val.payload) = (5 * n) \div 8
                 /\ DecodeOutcome.val.version = 8 * symbols[1] + (symbols[2] \div 4)

C16_Witness ==
  /\ Decoded /\ addressEdit.kind = "crafted" /\ LoweredPrefix \in AllowedLowered
  /\ Len(encodeArgs.symbols) = 3
  /\ \A i \in 1..3 : encodeArgs.symbols[i] = 0
  /\ DecodeOutcome = Throw(InvalidPadding)

(***************************************************************************)
(* One call of buildSignedTransaction                                      *)
(***************************************************************************)
MaxInputs == 2
MaxOutputs == 2

Kaspa == <<"k","a","s","p","a">>

\* addresses of the requests: two Schnorr-key addresses, one whose last
\* character was altered, one that decodes but
\* carries a 2-byte payload
AddressA == encodeKaspaAddress([i \in 1..32 |-> 1], Kaspa, 0).val
AddressB == encodeKaspaAddress([i \in 1..32 |-> 2], Kaspa, 0).val
AddressBroken ==
  [AddressA EXCEPT ![Len(AddressA)] = IF @ = "q" THEN "p" ELSE "q"]
AddressShort == encodeKaspaAddress(<<1, 2>>, Kaspa, 0).val

InputSamples ==
  { [txId |-> <<"a","a">>, vOut |-> 0, address |-> AddressA, amount |-> 100000000],
    [txId |-> <<"b","b">>, vOut |-> 1, address |-> AddressA, amount |-> 1000],
    [txId |-> <<"c","c">>, vOut |-> 0, address |-> AddressBroken, amount |-> 1000],
    [txId |-> <<"d","d">>, vOut |-> 0, address |-> AddressA, amount |-> -1] }

OutputSamples ==
  { [address |-> AddressB, amount |-> 50000000],
    [address |-> AddressB, amount |-> 99999500],
    [address |-> AddressB, amount |-> 99999454],
    [address |-> AddressB, amount |-> 0],
    [address |-> AddressShort, amount |-> 500] }

FeeSamples == {-1, 0, 500, 1000}
\* dustThreshold?: <<>> when the caller leaves it out
DustThresholdSamples == {<<>>, <<0>>}
PrivateKeySamples == {"inRange", "zero"}
ChangeAddressSamples == {AddressA, AddressBroken}
\* what schnorr.sign may return: 64 bytes, chosen with fresh randomness
SignatureSamples == {[i \in 1..64 |-> 7], [i \in 1..64 |-> 200]}

NetworkPrefixes == <<Kaspa>>

\* addressToScriptPublicKey of the addresses of the requests, tabulated: the
\* function is pure, and every call of a request has these arguments
ScriptTable ==
  [a \in {AddressA, AddressB, AddressBroken, AddressShort}, p \in {NetworkPrefixes} |->
     addressToScriptPublicKey(a, p)]

\* a variant of resolveScript that gives an empty script for an address that
\* does not decode
resolveScriptLenient(addr, allowedPrefixes) ==
  IF ScriptTable[addr, allowedPrefixes].ok THEN ScriptTable[addr, allowedPrefixes]
  ELSE Ok(<<>>)

resolveScript(addr, allowedPrefixes) == ScriptTable[addr, allowedPrefixes]

TxInit ==
  /\ CodecIdle /\ AppIdle
  /\ pc = "start"
  /\ params \in [inputs : SeqsUpTo(InputSamples, MaxInputs),
                 outputs : SeqsUpTo(OutputSamples, MaxOutputs),
                 changeAddress : ChangeAddressSamples,
                 fee : FeeSamples,
                 privateKey : PrivateKeySamples,
                 addressPrefixes : {NetworkPrefixes},
                 dustThreshold : DustThresholdSamples]
  /\ workingTx = <<>> /\ loopIndex = 0 /\ totalInput = 0 /\ totalOutput = 0
  /\ hashCache = <<>> /\ returned = <<>> /\ thrown = <<>> /\ resolved = 0
  /\ signedHashes = <<>> /\ hashComputations = <<>> /\ sigCall = <<>>

\* throw new Error(message): the call ends, nothing is returned
ThrowError(message) ==
  /\ pc' = "thrown"
  /\ thrown' = <<message>>
  /\ UNCHANGED <<params, returned>>

\* a variant of validateParams that looks at the lists before the key
validateParamsListsFirst(p) ==
  IF Len(p.inputs) = 0 THEN <<"No inputs available for transaction">>
  ELSE IF Len(p.outputs) = 0 THEN <<"No outputs provided">>
  ELSE IF ~isValidPrivateKey(p.privateKey) THEN <<"Invalid private key">>
  ELSE IF toSafeBigInt(p.fee) < 0 THEN <<"Fee cannot be negative">>
  ELSE <<>>

\* lines 311-326: the checks of the request, in the order of the code:
\* <<>> when all pass, else <<message of the Error thrown>>
validateParams(p) ==
  IF ~isValidPrivateKey(p.privateKey) THEN <<"Invalid private key">>
  ELSE IF Len(p.inputs) = 0 THEN <<"No inputs available for transaction">>
  ELSE IF Len(p.outputs) = 0 THEN <<"No outputs provided">>
  ELSE IF toSafeBigInt(p.fee) < 0 THEN <<"Fee cannot be negative">>
  ELSE <<>>

\* lines 311-335: the checks of the request, then the empty working transaction
Validate ==
  /\ pc = "start"
  /\ IF validateParams(params) # <<>>
     THEN ThrowError(validateParams(params)[1]) /\ UNCHANGED <<workingTx, loopIndex>>
     ELSE /\ workingTx' = [version |-> 0, inputs |-> <<>>, outputs |-> <<>>,
                             lockTime |-> 0, subnetworkId |-> DEFAULT_SUBNETWORK_ID,
                             utxos |-> <<>>]
          /\ pc' = "inputs"
          /\ loopIndex' = 1
          /\ UNCHANGED <<params, returned, thrown>>
  /\ UNCHANGED <<totalInput, totalOutput, hashCache, resolved, signedHashes,
                 hashComputations, sigCall, codecVars, appVars>>

\* a variant of AddInput that appends the input record before it resolves
\* the address
AddInputPushFirst ==
  /\ pc = "inputs"
  /\ LET input == params.inputs[loopIndex]
         amount == toSafeBigInt(input.amount)
         script == resolveScript(input.address, params.addressPrefixes)
         pushed == [workingTx EXCEPT
                      !.inputs = Append(@,
                         [previousOutpoint |->
                            [transactionId |-> input.txId, index |-> input.vOut],
                          signatureScript |-> <<>>,
                          sequence |-> 0,
                          sigOpCount |-> 1])]
     IN /\ resolved' = resolved + 1
        /\ IF ~script.ok
           THEN ThrowError(script.err)
                /\ workingTx' = pushed
                /\ UNCHANGED <<loopIndex, totalInput>>
           ELSE /\ workingTx' =
                     [pushed EXCEPT
                        !.utxos = Append(@, [scriptPublicKey |-> script.val,
                                             amount |-> amount])]
                /\ totalInput' = totalInput + amount
                /\ IF loopIndex < Len(params.inputs)
                   THEN loopIndex' = loopIndex + 1 /\ pc' = "inputs"
                   ELSE loopIndex' = 1 /\ pc' = "outputs"
                /\ UNCHANGED <<params, returned, thrown>>
  /\ UNCHANGED <<totalOutput, hashCache, signedHashes, hashComputations, sigCall, codecVars, appVars>>

\* lines 338-356: one round of the loop over params.inputs
AddInput ==
  /\ pc = "inputs"
  /\ LET input == params.inputs[loopIndex]
         amount == toSafeBigInt(input.amount)
     IN \E script \in {resolveScript(input.address, params.addressPrefixes)} :
        /\ resolved' = resolved + 1
        /\ IF ~script.ok
           THEN ThrowError(script.err)
                /\ UNCHANGED <<workingTx, loopIndex, totalInput>>
           ELSE /\ workingTx' =
                     [workingTx EXCEPT
                        !.inputs = Append(@,
                           [previousOutpoint |->
                              [transactionId |-> input.txId, index |-> input.vOut],
                            signatureScript |-> <<>>,
                            sequence |-> 0,
                            sigOpCount |-> 1]),
                        !.utxos = Append(@, [scriptPublicKey |-> script.val,
                                             amount |-> amount])]
                /\ totalInput' = totalInput + amount
                /\ IF loopIndex < Len(params.inputs)
                   THEN loopIndex' = loopIndex + 1 /\ pc' = "inputs"
                   ELSE loopIndex' = 1 /\ pc' = "outputs"
                /\ UNCHANGED <<params, returned, thrown>>
  /\ UNCHANGED <<totalOutput, hashCache, signedHashes, hashComputations, sigCall, codecVars, appVars>>

\* lines 359-373: one round of the loop over params.outputs
AddOutput ==
  /\ pc = "outputs"
  /\ LET output == params.outputs[loopIndex]
         amount == toSafeBigInt(output.amount)
     IN IF amount <= 0
        THEN ThrowError("Output amount must be positive")
             /\ UNCHANGED <<workingTx, loopIndex, totalOutput, resolved>>
        ELSE \E script \in {resolveScript(output.address, params.addressPrefixes)} :
             /\ resolved' = resolved + 1
             /\ IF ~script.ok
                THEN ThrowError(script.err)
                     /\ UNCHANGED <<workingTx, loopIndex, totalOutput>>
                ELSE /\ workingTx' =
                          [workingTx EXCEPT
                             !.outputs = Append(@,
                                [amount |-> amount,
                                 scriptPublicKey |->
                                   [version |-> 0,
                                    scriptPublicKey |-> bytesToHex(script.val)]])]
                     /\ totalOutput' = totalOutput + amount
                     /\ IF loopIndex < Len(params.outputs)
                        THEN loopIndex' = loopIndex + 1 /\ pc' = "outputs"
                        ELSE loopIndex' = 1 /\ pc' = "change"
                     /\ UNCHANGED <<params, returned, thrown>>
  /\ UNCHANGED <<totalInput, hashCache, signedHashes, hashComputations, sigCall, codecVars, appVars>>

\* BigInt(params.dustThreshold ?? 546)
dustThresholdOf(p) == IF p.dustThreshold = <<>> THEN 546 ELSE p.dustThreshold[1]

\* a variant of changeAmountOf with the sign of the fee reversed
changeAmountOfFeeAdded(inputTotal, outputTotal, fee) == inputTotal - outputTotal + fee

\* a variant of changeAmountOf that leaves the fee out
changeAmountOfNoFee(inputTotal, outputTotal, fee) == inputTotal - outputTotal

\* line 375: changeAmount = totalInput - totalOutput - fee
changeAmountOf(inputTotal, outputTotal, fee) == inputTotal - outputTotal - fee

\* a variant of needsChangeOutput that appends any positive change
needsChangeOutputAnyPositive(changeAmount, dustThreshold) == changeAmount > 0

\* a variant of needsChangeOutput with a strict comparison
needsChangeOutputStrict(changeAmount, dustThreshold) == changeAmount > dustThreshold

\* line 381: if (changeAmount >= dustThreshold)
needsChangeOutput(changeAmount, dustThreshold) == changeAmount >= dustThreshold

\* a variant of signatureScriptOf that leaves the hash type byte out
signatureScriptOfNoHashType(signature) == bytesToHex(<<65>> \o signature)

\* line 396: bytesToHex(new Uint8Array([0x41, ...signature, SIGHASH_ALL]))
signatureScriptOf(signature) == bytesToHex(<<65>> \o signature \o <<SIGHASH_ALL>>)

\* lines 375-391: the change output, then the empty hash cache
ComputeChange ==
  /\ pc = "change"
  /\ LET fee == toSafeBigInt(params.fee)
         changeAmount == changeAmountOf(totalInput, totalOutput, fee)
         dustThreshold == dustThresholdOf(params)
     IN IF changeAmount < 0
        THEN ThrowError("Insufficient balance")
             /\ UNCHANGED <<workingTx, loopIndex, hashCache, resolved>>
        ELSE IF needsChangeOutput(changeAmount, dustThreshold)
        THEN \E script \in {resolveScript(params.changeAddress, params.addressPrefixes)} :
             /\ resolved' = resolved + 1
             /\ IF ~script.ok
                THEN ThrowError(script.err) /\ UNCHANGED <<workingTx, loopIndex, hashCache>>
                ELSE /\ workingTx' =
                          [workingTx EXCEPT
                             !.outputs = Append(@,
                                [amount |-> changeAmount,
                                 scriptPublicKey |->
                                   [version |-> 0,
                                    scriptPublicKey |-> bytesToHex(script.val)]])]
                     /\ hashCache' = EmptyHashCache
                     /\ loopIndex' = 1 /\ pc' = "sign"
                     /\ UNCHANGED <<params, returned, thrown>>
        ELSE /\ hashCache' = EmptyHashCache
             /\ loopIndex' = 1 /\ pc' = "sign"
             /\ UNCHANGED <<params, returned, thrown, workingTx, resolved>>
  /\ UNCHANGED <<totalInput, totalOutput, signedHashes, hashComputations, sigCall, codecVars, appVars>>

\* a variant of SignInput that writes a whole new input record (sequence
\* included) in place of the signed input
SignInputRewritesInput(signature) ==
  /\ pc = "sign"
  /\ LET sig == calculateSigHash(workingTx, SIGHASH_ALL, loopIndex, hashCache)
     IN /\ hashCache' = sig.cache
        /\ hashComputations' = hashComputations \o sig.computed
        /\ IF ~sig.hash.ok
           THEN ThrowError(sig.hash.err)
                /\ UNCHANGED <<workingTx, loopIndex, signedHashes>>
           ELSE /\ workingTx' =
                     [workingTx EXCEPT
                        !.inputs[loopIndex] =
                           [previousOutpoint |-> @.previousOutpoint,
                            signatureScript |-> signatureScriptOf(signature),
                            sequence |-> loopIndex,
                            sigOpCount |-> 1]]
                /\ signedHashes' = Append(signedHashes, sig.hash.val)
                /\ IF loopIndex < Len(workingTx.inputs)
                   THEN loopIndex' = loopIndex + 1 /\ pc' = "sign"
                   ELSE loopIndex' = 1 /\ pc' = "emit"
                /\ UNCHANGED <<params, returned, thrown>>
  /\ UNCHANGED <<totalInput, totalOutput, resolved, sigCall, codecVars, appVars>>

\* lines 392-397: one round of transaction.inputs.forEach
SignInput(signature) ==
  /\ pc = "sign"
  /\ \E sig \in {calculateSigHash(workingTx, SIGHASH_ALL, loopIndex, hashCache)} :
        /\ hashCache' = sig.cache
        /\ hashComputations' = hashComputations \o sig.computed
        /\ IF ~sig.hash.ok
           THEN ThrowError(sig.hash.err)
                /\ UNCHANGED <<workingTx, loopIndex, signedHashes>>
           ELSE /\ workingTx' =
                     [workingTx EXCEPT
                        !.inputs[loopIndex].signatureScript =
                           signatureScriptOf(signature)]
                /\ signedHashes' = Append(signedHashes, sig.hash.val)
                /\ IF loopIndex < Len(workingTx.inputs)
                   THEN loopIndex' = loopIndex + 1 /\ pc' = "sign"
                   ELSE loopIndex' = 1 /\ pc' = "emit"
                /\ UNCHANGED <<params, returned, thrown>>
  /\ UNCHANGED <<totalInput, totalOutput, resolved, sigCall, codecVars, appVars>>

\* lines 399-411: the payload returned
Emit ==
  /\ pc = "emit"
  /\ returned' =
       << [transaction |->
             [version |-> workingTx.version,
              inputs |-> workingTx.inputs,
              outputs |-> [i \in 1..Len(workingTx.outputs) |->
                             [amount |-> bigintToString(workingTx.outputs[i].amount),
                              scriptPublicKey |-> workingTx.outputs[i].scriptPublicKey]],
              lockTime |-> bigintToString(workingTx.lockTime),
              subnetworkId |-> workingTx.subnetworkId],
           allowOrphan |-> FALSE] >>
  /\ pc' = "returned"
  /\ UNCHANGED <<params, workingTx, loopIndex, totalInput, totalOutput, hashCache, thrown,
                 resolved, signedHashes, hashComputations, sigCall, codecVars, appVars>>

TxNext ==
  \/ Validate
  \/ AddInput
  \/ AddOutput
  \/ ComputeChange
  \/ \E signature \in SignatureSamples : SignInput(signature)
  \/ Emit

SpecTx == TxInit /\ [][TxNext]_vars

\* the call is synchronous code: once entered it keeps taking steps until it
\* has returned or thrown (every other value of pc has a step: each action is
\* guarded by its value of pc alone)
SpecTxFair ==
  SpecTx /\ ([]<>(pc \in {"returned", "thrown"}) \/ []<><<TxNext>>_vars)

(***************************************************************************)
(* Calls of calculateSigHash on one transaction (part_000, lines 232-262). *)
(* The transaction is fixed by the initial state; each call names a hash   *)
(* type and an input, and is given either the cache the earlier calls left *)
(* behind or a new, empty one.  sigCall records the calls with what they   *)
(* returned.                                                               *)
(***************************************************************************)
MaxSigCalls == 2

\* an input of the transaction with the UTXO descriptor at the same index
SignedInputSamples ==
  { [input |-> [previousOutpoint |-> [transactionId |-> <<"a","a">>, index |-> 0],
                signatureScript |-> <<>>, sequence |-> 0, sigOpCount |-> 1],
     utxo |-> [scriptPublicKey |-> <<32, 1, 172>>, amount |-> 1000]],
    [input |-> [previousOutpoint |-> [transactionId |-> <<"b","b">>, index |-> 1],
                signatureScript |-> <<>>, sequence |-> 0, sigOpCount |-> 1],
     utxo |-> [scriptPublicKey |-> <<32, 2, 172>>, amount |-> 70000]] }

SignedOutputSamples ==
  { [amount |-> 500,
     scriptPublicKey |-> [version |-> 0, scriptPublicKey |-> <<"2","0","0","1","a","c">>]],
    [amount |-> 66000,
     scriptPublicKey |-> [version |-> 0, scriptPublicKey |-> <<"2","0","0","2","a","c">>]] }

\* the hash types: ALL, NONE, SINGLE, each with and without ANYONECANPAY, and
\* one whose low three bits are none of the three
HashTypeSamples ==
  {SIGHASH_ALL, SIGHASH_NONE, SIGHASH_SINGLE, SIGHASH_ALL + SIGHASH_NONE,
   SIGHASH_ALL + SIGHASH_ANYONECANPAY, SIGHASH_NONE + SIGHASH_ANYONECANPAY,
   SIGHASH_SINGLE + SIGHASH_ANYONECANPAY}

\* a SerializableTransaction with inputs and utxos matched by position
TransactionOf(signedInputs, outputs) ==
  [version |-> 0,
   inputs |-> [i \in 1..Len(signedInputs) |-> signedInputs[i].input],
   outputs |-> outputs,
   lockTime |-> 0,
   subnetworkId |-> DEFAULT_SUBNETWORK_ID,
   utxos |-> [i \in 1..Len(signedInputs) |-> signedInputs[i].utxo]]

SigHashInit ==
  /\ CodecIdle /\ AppIdle
  /\ pc = "sighash"
  /\ \E signedInputs \in SeqsUpTo(SignedInputSamples, MaxInputs) \ {<<>>},
        outputs \in SeqsUpTo(SignedOutputSamples, MaxOutputs) :
       workingTx = TransactionOf(signedInputs, outputs)
  /\ hashCache = EmptyHashCache
  /\ params = <<>> /\ loopIndex = 0 /\ totalInput = 0 /\ totalOutput = 0
  /\ returned = <<>> /\ thrown = <<>> /\ resolved = 0
  /\ signedHashes = <<>> /\ hashComputations = <<>> /\ sigCall = <<>>

\* the four sub-hashes that calculateSigHash writes (lines 243-245, 254)
subHashesOf(transaction, hashType, inputIndex, cache) ==
  [previousOutputsHash |-> getPreviousOutputsHash(transaction, hashType, cache).hash,
   sequencesHash |-> getSequencesHash(transaction, hashType, cache).hash,
   sigOpCountsHash |-> getSigOpCountsHash(transaction, hashType, cache).hash,
   outputsHash |-> getOutputsHash(transaction, inputIndex, hashType, cache).hash]

\* what one call is given and what it gave back
SigCallRecord(hashType, inputIndex, cacheGiven, sig, subHashes) ==
  [hashType |-> hashType, inputIndex |-> inputIndex, cacheGiven |-> cacheGiven,
   result |-> sig.hash, computed |-> sig.computed, subHashes |-> subHashes]

\* calculateSigHash(transaction, hashType, inputIndex, cache) with the cache
\* of the earlier calls (sharedCache) or with {}
CallSigHash(hashType, inputIndex, sharedCache) ==
  /\ pc = "sighash"
  /\ Len(sigCall) < MaxSigCalls
  /\ inputIndex \in 1..Len(workingTx.inputs)
  /\ LET cacheGiven == IF sharedCache THEN hashCache ELSE EmptyHashCache
     IN /\ hashCache' =
             calculateSigHash(workingTx, hashType, inputIndex, cacheGiven).cache
        /\ sigCall' =
             Append(sigCall,
                    SigCallRecord(hashType, inputIndex, cacheGiven,
                      calculateSigHash(workingTx, hashType, inputIndex, cacheGiven),
                      subHashesOf(workingTx, hashType, inputIndex, cacheGiven)))
  /\ UNCHANGED <<pc, params, workingTx, loopIndex, totalInput, totalOutput,
                 returned, thrown, resolved, signedHashes, hashComputations,
                 codecVars, appVars>>

SigHashNext ==
  \E hashType \in HashTypeSamples, inputIndex \in 1..MaxInputs,
     sharedCache \in BOOLEAN :
    CallSigHash(hashType, inputIndex, sharedCache)

SpecSigHash == SigHashInit /\ [][SigHashNext]_vars

(***************************************************************************)
(* Properties of buildSignedTransaction (checked under SpecTx)             *)
(***************************************************************************)
InvalidPrivateKey == "Invalid private key"
NoInputs == "No inputs available for transaction"
NoOutputs == "No outputs provided"
NegativeFee == "Fee cannot be negative"
InsufficientBalance == "Insufficient balance"

RECURSIVE SumAmounts(_)
\* the sum of the amount fields of a list of inputs or outputs of a request
SumAmounts(items) ==
  IF items = <<>> THEN 0 ELSE items[1].amount + SumAmounts(Tail(items))

RECURSIVE DecimalValue(_)
\* the number a string of decimal digits writes
DecimalValue(digits) ==
  IF digits = <<>> THEN 0
  ELSE 10 * DecimalValue(SubSeq(digits, 1, Len(digits) - 1))
       + (IndexIn(DigitChars, digits[Len(digits)]) - 1)

RECURSIVE SumPayloadAmounts(_)
\* the sum of the amounts (decimal strings) of the outputs of a payload
SumPayloadAmounts(outputs) ==
  IF outputs = <<>> THEN 0
  ELSE DecimalValue(outputs[1].amount) + SumPayloadAmounts(Tail(outputs))

Returned == pc = "returned"
Failed == pc = "thrown"
PayloadTx == returned[1].transaction
RequestedInput == SumAmounts(params.inputs)
RequestedOutput == SumAmounts(params.outputs)
RequestedChange == RequestedInput - RequestedOutput - params.fee
RequestedDust == IF params.dustThreshold = <<>> THEN 546 ELSE params.dustThreshold[1]
Resolves(addr) == resolveScript(addr, params.addressPrefixes).ok

\* the request passes the four entry checks
PassesEntryChecks ==
  /\ params.privateKey = "inRange"
  /\ Len(params.inputs) > 0
  /\ Len(params.outputs) > 0
  /\ params.fee >= 0
\* ... and every input and output of it is well formed
WellFormedRequest ==
  /\ PassesEntryChecks
  /\ \A i \in 1..Len(params.inputs) :
       Resolves(params.inputs[i].address) /\ params.inputs[i].amount >= 0
  /\ \A i \in 1..Len(params.outputs) :
       Resolves(params.outputs[i].address) /\ params.outputs[i].amount > 0

\* C2 as stated: for every call that returns, the input amounts sum to the
\* amounts of the outputs of the payload plus the fee.
C2_FeeConservationExact ==
  Returned => RequestedInput = SumPayloadAmounts(PayloadTx.outputs) + params.fee

\* C2 amended: for every call that returns, the input amounts sum to the
\* amounts of the outputs of the payload plus the fee when the change is at
\* least the dust threshold; when the change is below it, they sum to the
\* outputs plus the fee plus the change, which is paid to nobody.
C2_FeeConservationUpToDust ==
  Returned =>
    IF RequestedChange >= RequestedDust
    THEN RequestedInput = SumPayloadAmounts(PayloadTx.outputs) + params.fee
    ELSE /\ RequestedInput =
              SumPayloadAmounts(PayloadTx.outputs) + params.fee + RequestedChange
         /\ RequestedChange >= 0
         /\ RequestedChange < RequestedDust

C2_Witness ==
  /\ Returned
  /\ RequestedChange > 0 /\ RequestedChange < RequestedDust
  /\ params.fee > 0
  /\ RequestedInput > SumPayloadAmounts(PayloadTx.outputs) + params.fee

IsSignatureScript(script) ==
  LET bytes == hexToBytes(script)
  IN /\ Len(script) = 132
     /\ Len(bytes) = 66
     /\ bytes[1] = 65
     /\ bytes[66] = 1
     /\ SubSeq(bytes, 2, 65) \in SignatureSamples

\* C3: a returned payload has, on every input, a signature script
\* 0x41 || 64-byte signature || 0x01, one input per input of the request;
\* a call that fails at any stage returns no payload, and a payload exists
\* only once the call has returned.
C3_AllOrNothing ==
  /\ Returned =>
       /\ Len(returned) = 1
       /\ Len(PayloadTx.inputs) = Len(params.inputs)
       /\ \A i \in 1..Len(PayloadTx.inputs) :
            IsSignatureScript(PayloadTx.inputs[i].signatureScript)
  /\ Failed => returned = <<>>
  /\ returned # <<>> => Returned

C3_Witness ==
  /\ Returned
  /\ Len(PayloadTx.inputs) = 2
  /\ PayloadTx.inputs[1].signatureScript # PayloadTx.inputs[2].signatureScript
  /\ \A i \in 1..2 : IsSignatureScript(PayloadTx.inputs[i].signatureScript)

\* C4: a call whose inputs sum to less than its outputs plus the fee never
\* returns a payload, and when the request passes the entry checks and its
\* inputs and outputs are well formed the call ends with InsufficientBalance.
C4_InsufficientBalance ==
  (PassesEntryChecks /\ RequestedInput < RequestedOutput + params.fee) =>
    /\ ~Returned
    /\ returned = <<>>
    /\ pc \notin {"sign", "emit"}
    /\ (Failed /\ WellFormedRequest) => thrown = <<InsufficientBalance>>

C4_Witness ==
  /\ Failed /\ WellFormedRequest
  /\ RequestedInput >= RequestedOutput
  /\ RequestedInput < RequestedOutput + params.fee
  /\ thrown = <<InsufficientBalance>>
  /\ returned = <<>>

InDustCase ==
  WellFormedRequest /\ 0 < RequestedChange /\ RequestedChange < RequestedDust

\* C5: a call with a well-formed request whose change is strictly between 0
\* and the dust threshold never fails and returns; the payload has the
\* requested outputs and no other, and they sum to strictly less than the
\* inputs minus the fee.
C5_DustSuppression ==
  /\ [](InDustCase =>
          /\ ~Failed
          /\ Returned =>
               /\ Len(PayloadTx.outputs) = Len(params.outputs)
               /\ \A i \in 1..Len(params.outputs) :
                    DecimalValue(PayloadTx.outputs[i].amount) = params.outputs[i].amount
               /\ SumPayloadAmounts(PayloadTx.outputs) < RequestedInput - params.fee)
  /\ (InDustCase ~> Returned)

C5_Witness ==
  /\ InDustCase
  /\ Returned
  /\ ~Resolves(params.changeAddress)
  /\ Len(PayloadTx.outputs) = Len(params.outputs)

PaysTo(output, addr) ==
  output.scriptPublicKey =
    [version |-> 0,
     scriptPublicKey |->
       bytesToHex(resolveScript(addr, params.addressPrefixes).val)]

\* C6: a returned payload has the outputs of the request, in order, and one
\* more exactly when the change is at least the dust threshold (546 unless
\* the request gives one); that one is last, pays the change address and
\* carries the change.
C6_ChangeOutput ==
  Returned =>
    LET outs == PayloadTx.outputs
        n == Len(params.outputs)
    IN /\ \A i \in 1..n :
            /\ outs[i].amount = bigintToString(params.outputs[i].amount)
            /\ PaysTo(outs[i], params.outputs[i].address)
       /\ (Len(outs) = n + 1) <=> (RequestedChange >= RequestedDust)
       /\ (RequestedChange < RequestedDust) => Len(outs) = n
       /\ (RequestedChange >= RequestedDust) =>
            /\ Len(outs) = n + 1
            /\ DecimalValue(outs[n + 1].amount) = RequestedChange
            /\ PaysTo(outs[n + 1], params.changeAddress)

C6_Witness ==
  /\ Returned
  /\ params.dustThreshold = <<>>
  /\ RequestedInput = 100000000 /\ RequestedOutput = 50000000 /\ params.fee = 1000
  /\ Len(PayloadTx.outputs) = 2
  /\ PayloadTx.outputs[2].amount = <<"4","9","9","9","9","0","0","0">>
  /\ PaysTo(PayloadTx.outputs[2], params.changeAddress)

\* the message of the first entry check the request violates, in the order
\* key, inputs, outputs, fee
FirstViolated ==
  IF params.privateKey # "inRange" THEN InvalidPrivateKey
  ELSE IF Len(params.inputs) = 0 THEN NoInputs
  ELSE IF Len(params.outputs) = 0 THEN NoOutputs
  ELSE NegativeFee

\* C10: a request that violates an entry check fails at once with the first
\* violated check in the order key, inputs, outputs, fee; no address has
\* been resolved and no transaction has been started.
C10_ValidationOrder ==
  (pc # "start" /\ ~PassesEntryChecks) =>
    /\ Failed
    /\ thrown = <<FirstViolated>>
    /\ resolved = 0
    /\ DOMAIN workingTx = {}
    /\ returned = <<>>

C10_Witness ==
  /\ Failed
  /\ params.privateKey # "inRange" /\ Len(params.inputs) = 0
  /\ Len(params.outputs) = 0 /\ params.fee < 0
  /\ thrown = <<InvalidPrivateKey>>
  /\ resolved = 0

\* every check of the request passes: the four entry checks and the check
\* that each output amount is positive
PassesValidation ==
  PassesEntryChecks /\ \A i \in 1..Len(params.outputs) : params.outputs[i].amount > 0

\* the working transaction holds a record, or an address has been resolved
WorkStarted ==
  \/ resolved > 0
  \/ /\ DOMAIN workingTx # {}
     /\ \/ workingTx.inputs # <<>>
        \/ workingTx.utxos # <<>>
        \/ workingTx.outputs # <<>>

\* C11 as stated: no input record, UTXO descriptor or output record is in
\* the working transaction, and no address has been resolved, unless every
\* validation check of the request (output amounts included) passes.
C11_ValidationBeforeMutation == WorkStarted => PassesValidation

(***************************************************************************)
(* Properties of calculateSigHash (checked under SpecSigHash)              *)
(***************************************************************************)
SameCall(a, b) == a.hashType = b.hashType /\ a.inputIndex = b.inputIndex

\* the second call is given the cache that the first call filled
ReusesCacheOfFirst ==
  /\ Len(sigCall) = 2
  /\ SameCall(sigCall[1], sigCall[2])
  /\ sigCall[1].computed # <<>>
  /\ sigCall[2].cacheGiven # EmptyHashCache

\* C17: for a fixed transaction, input index and hash type, two calls of
\* calculateSigHash return the same bytes, whether the second call is given
\* a new cache or the cache that the first call populated.
C17_SigHashDeterminism ==
  \A i \in 1..Len(sigCall) : \A j \in 1..Len(sigCall) :
    SameCall(sigCall[i], sigCall[j]) => sigCall[i].result = sigCall[j].result

\* two calls with the same arguments, the second reading what the first
\* stored in the cache, both returning a hash
C17_Witness ==
  /\ ReusesCacheOfFirst
  /\ sigCall[2].computed = <<>>
  /\ sigCall[1].result.ok
  /\ sigCall[2].result = sigCall[1].result

\* text is the decimal string of the integer n >= 0: digits only, no leading
\* zero except for "0" itself, writing n
IsDecimalStringOf(text, n) ==
  /\ Len(text) > 0
  /\ \A i \in 1..Len(text) : text[i] \in Range(DigitChars)
  /\ (Len(text) > 1 => text[1] # "0")
  /\ DecimalValue(text) = n

\* the hex string of the spend script of an address of the request
ScriptHexOf(addr) == bytesToHex(resolveScript(addr, params.addressPrefixes).val)

\* the outputs the payload must carry: those of the request, then the change
\* output when the change reaches the dust threshold
ExpectedOutputs ==
  [i \in 1..Len(params.outputs) |->
     [address |-> params.outputs[i].address, amount |-> params.outputs[i].amount]]
  \o (IF RequestedChange >= RequestedDust
      THEN <<[address |-> params.changeAddress, amount |-> RequestedChange]>>
      ELSE <<>>)

\* C18: every payload returned has version 0, lockTime "0", a subnetworkId of
\* 40 hex zeros and allowOrphan false; its inputs are the inputs of the
\* request in order, each with sequence 0 and sigOpCount 1; its outputs are
\* the outputs of the request in order, the change output (if any) last, each
\* with script version 0 and the amount as the decimal string of the amount.
C18_PayloadShape ==
  Returned =>
    /\ PayloadTx.version = 0
    /\ PayloadTx.lockTime = <<"0">>
    /\ Len(PayloadTx.subnetworkId) = 40
    /\ \A i \in 1..40 : PayloadTx.subnetworkId[i] = "0"
    /\ returned[1].allowOrphan = FALSE
    /\ Len(PayloadTx.inputs) = Len(params.inputs)
    /\ \A i \in 1..Len(params.inputs) :
         /\ PayloadTx.inputs[i].previousOutpoint.transactionId = params.inputs[i].txId
         /\ PayloadTx.inputs[i].previousOutpoint.index = params.inputs[i].vOut
         /\ PayloadTx.inputs[i].sequence = 0
         /\ PayloadTx.inputs[i].sigOpCount = 1
    /\ Len(PayloadTx.outputs) = Len(ExpectedOutputs)
    /\ \A i \in 1..Len(ExpectedOutputs) :
         /\ PayloadTx.outputs[i].scriptPublicKey.version = 0
         /\ PayloadTx.outputs[i].scriptPublicKey.scriptPublicKey =
              ScriptHexOf(ExpectedOutputs[i].address)
         /\ IsDecimalStringOf(PayloadTx.outputs[i].amount, ExpectedOutputs[i].amount)

\* a payload with two inputs, two requested outputs and a change output
C18_Witness ==
  /\ Returned
  /\ Len(PayloadTx.inputs) = 2
  /\ Len(params.outputs) = 2
  /\ Len(PayloadTx.outputs) = 3
  /\ PayloadTx.inputs[1] # PayloadTx.inputs[2]

SubHashFields ==
  {"previousOutputsHash", "sequencesHash", "sigOpCountsHash", "outputsHash"}

\* how many times the sub-hash of a field has been computed in this call
TimesComputed(field) ==
  Cardinality({i \in 1..Len(hashComputations) : hashComputations[i] = field})

\* C19: during one call of buildSignedTransaction each of the four sub-hashes
\* is computed at most once, however many inputs are signed: the cache is
\* empty when signing starts, signing the first input computes and stores
\* the four sub-hashes, and signing a later input computes none.
C19_SubHashesOnce ==
  /\ \A field \in SubHashFields : TimesComputed(field) <= 1
  /\ (pc = "sign" /\ loopIndex = 1) =>
       hashCache = EmptyHashCache /\ hashComputations = <<>>
  /\ Len(signedHashes) >= 1 =>
       /\ \A field \in SubHashFields :
            TimesComputed(field) = 1 /\ hashCache[field] # <<>>
       /\ Len(hashComputations) = 4

\* two inputs have been signed and each sub-hash was computed once
C19_Witness ==
  /\ Len(signedHashes) = 2
  /\ \A field \in SubHashFields : TimesComputed(field) = 1

\* the working transaction exists (line 328 has run)
HasWorkingTx == workingTx # <<>>

\* C20: whenever the working transaction exists, its inputs list and its
\* utxos list have the same length, and utxos[i] holds the spend script
\* resolved from the address of input i of the request together with that
\* input's amount; an input whose address does not resolve adds no record to
\* either list.
C20_InputsMatchUtxos ==
  HasWorkingTx =>
    /\ Len(workingTx.inputs) = Len(workingTx.utxos)
    /\ Len(workingTx.inputs) <= Len(params.inputs)
    /\ \A i \in 1..Len(workingTx.inputs) :
         /\ Resolves(params.inputs[i].address)
         /\ workingTx.utxos[i].scriptPublicKey =
              resolveScript(params.inputs[i].address, params.addressPrefixes).val
         /\ workingTx.utxos[i].amount = params.inputs[i].amount
         /\ workingTx.inputs[i].previousOutpoint.transactionId = params.inputs[i].txId

\* the second input's address failed to resolve: the call threw and the two
\* lists hold the record of the first input only
C20_Witness ==
  /\ Failed
  /\ HasWorkingTx
  /\ Len(params.inputs) = 2
  /\ Resolves(params.inputs[1].address)
  /\ ~Resolves(params.inputs[2].address)
  /\ Len(workingTx.inputs) = 1
  /\ Len(workingTx.utxos) = 1

\* an input record without its signatureScript
Unsigned(input) == [input EXCEPT !.signatureScript = <<>>]
UnsignedInputs(transaction) ==
  [i \in 1..Len(transaction.inputs) |-> Unsigned(transaction.inputs[i])]

\* signing has begun: line 391 has run and the payload is not yet returned
SigningBegun == pc \in {"sign", "emit"}

\* from signing on, the outputs are those of the request plus the change
OutputsFinal ==
  /\ Len(workingTx.outputs) = Len(ExpectedOutputs)
  /\ \A i \in 1..Len(ExpectedOutputs) :
       workingTx.outputs[i].amount = ExpectedOutputs[i].amount

\* a step from signing on leaves outpoints, sequences, outputs and UTXO
\* descriptors as they are
SigningFrame ==
  SigningBegun =>
    /\ workingTx'.outputs = workingTx.outputs
    /\ workingTx'.utxos = workingTx.utxos
    /\ UnsignedInputs(workingTx') = UnsignedInputs(workingTx)

\* C21: from the first signature hash until the payload is emitted, the inputs
\* (outpoints, sequences), the outputs and the UTXO descriptors of the working
\* transaction do not change: the change output, if any, is there before the
\* first signature hash is computed, signing writes signatureScript only, and
\* the outputs of the payload are the outputs every signature was made over.
C21_FrozenWhileSigning ==
  /\ [](SigningBegun => OutputsFinal)
  /\ [][SigningFrame]_vars
  /\ [](Returned =>
          /\ Len(PayloadTx.outputs) = Len(workingTx.outputs)
          /\ \A i \in 1..Len(workingTx.outputs) :
               PayloadTx.outputs[i].scriptPublicKey = workingTx.outputs[i].scriptPublicKey
          /\ UnsignedInputs(PayloadTx) = UnsignedInputs(workingTx))

\* both inputs are signed and a change output was appended before signing
C21_Witness ==
  /\ pc = "emit"
  /\ Len(signedHashes) = 2
  /\ Len(workingTx.outputs) = Len(params.outputs) + 1
  /\ \A i \in 1..2 : workingTx.inputs[i].signatureScript # <<>>

ZeroBytes32 == Ok([bytes |-> [k \in 1..32 |-> 0]])
AnyoneCanPaySet(t) == (t \div 128) % 2 = 1
LowThreeBits(t) == t % 8

\* the digest of output i (1-based) alone, and of all outputs in order
DigestOfOutput(i) == finalize(hashOutput(NewHashWriter, workingTx.outputs[i]))
DigestOfAllOutputs ==
  finalize(forEachWrite(hashOutput, workingTx.outputs, 1, NewHashWriter))

\* the sub-hashes of one recorded call are those its hash type selects
SelectsByHashType(call) ==
  LET t == call.hashType
      i == call.inputIndex
      sub == call.subHashes
  IN /\ (sub.previousOutputsHash = ZeroBytes32) <=> AnyoneCanPaySet(t)
     /\ (sub.sigOpCountsHash = ZeroBytes32) <=> AnyoneCanPaySet(t)
     /\ (sub.sequencesHash = ZeroBytes32) <=>
          (LowThreeBits(t) \in {SIGHASH_SINGLE, SIGHASH_NONE} \/ AnyoneCanPaySet(t))
     /\ (sub.outputsHash = ZeroBytes32) <=>
          \/ LowThreeBits(t) = SIGHASH_NONE
          \/ LowThreeBits(t) = SIGHASH_SINGLE /\ i - 1 >= Len(workingTx.outputs)
     /\ (LowThreeBits(t) = SIGHASH_SINGLE /\ i - 1 < Len(workingTx.outputs)) =>
          sub.outputsHash = DigestOfOutput(i)
     /\ LowThreeBits(t) \notin {SIGHASH_SINGLE, SIGHASH_NONE} =>
          sub.outputsHash = DigestOfAllOutputs

\* C22: for hash type t and input i, the previous-outputs hash and the
\* sig-op-counts hash are 32 zero bytes exactly when ANYONECANPAY is set; the
\* sequences hash is zero exactly when the low three bits of t are SINGLE or
\* NONE or ANYONECANPAY is set; the outputs hash is zero exactly for NONE and
\* for SINGLE with i >= outputs.length, is the hash of output i alone for
\* SINGLE with i < outputs.length, and is the hash over all outputs otherwise.
C22_SubHashSelection ==
  \A k \in 1..Len(sigCall) : SelectsByHashType(sigCall[k])

\* two calls: SINGLE on input 2 of a transaction with one
\* output (zero outputs hash), then SINGLE on input 1 (the hash of output 1)
C22_Witness ==
  /\ Len(sigCall) = 2
  /\ Len(workingTx.inputs) = 2 /\ Len(workingTx.outputs) = 1
  /\ sigCall[1].hashType = SIGHASH_SINGLE /\ sigCall[1].inputIndex = 2
  /\ sigCall[1].subHashes.outputsHash = ZeroBytes32
  /\ sigCall[2].hashType = SIGHASH_SINGLE /\ sigCall[2].inputIndex = 1
  /\ sigCall[2].subHashes.outputsHash = DigestOfOutput(1)
  /\ sigCall[2].subHashes.sequencesHash = ZeroBytes32

\* the same call made with a new, empty cache
FreshCall(call) ==
  calculateSigHash(workingTx, call.hashType, call.inputIndex, EmptyHashCache).hash
FreshSubHashes(call) ==
  subHashesOf(workingTx, call.hashType, call.inputIndex, EmptyHashCache)

\* C23: in any sequence of calculateSigHash calls on one transaction, with any
\* hash types and input indexes, a call given the cache of the earlier calls
\* returns the hash -- and writes the sub-hashes -- that the same call returns
\* when given an empty cache; a stored sub-hash is not used where the hash
\* type asks for the zero hash or for the hash of a single output.
C23_CacheTransparency ==
  \A k \in 1..Len(sigCall) :
    /\ sigCall[k].result = FreshCall(sigCall[k])
    /\ sigCall[k].subHashes = FreshSubHashes(sigCall[k])

\* an ALL call stored the four sub-hashes; a SINGLE call is then given that
\* cache and still writes the hash of its own output and a zero sequences
\* hash
C23_Witness ==
  /\ Len(sigCall) = 2
  /\ sigCall[1].hashType = SIGHASH_ALL
  /\ Len(sigCall[1].computed) = 4
  /\ sigCall[2].hashType = SIGHASH_SINGLE
  /\ sigCall[2].cacheGiven # EmptyHashCache
  /\ sigCall[2].cacheGiven["outputsHash"] # <<>>
  /\ sigCall[2].inputIndex <= Len(workingTx.outputs)
  /\ sigCall[2].subHashes.outputsHash # Ok(sigCall[2].cacheGiven["outputsHash"][1])
  /\ sigCall[2].subHashes.sequencesHash = ZeroBytes32
  /\ sigCall[2].result.ok

\* the working transaction with the inputs of the set signed carrying a
\* signature script and all others carrying none
WithSignatures(signed, script) ==
  [workingTx EXCEPT
     !.inputs = [i \in 1..Len(workingTx.inputs) |->
                   IF i \in signed
                   THEN [workingTx.inputs[i] EXCEPT !.signatureScript = script]
                   ELSE Unsigned(workingTx.inputs[i])]]

\* the signature hash of input i when the inputs of the set signed have been
\* signed before it
SigHashAfter(signed, i) ==
  calculateSigHash(WithSignatures(signed, signatureScriptOf([k \in 1..64 |-> 9])),
                   SIGHASH_ALL, i, EmptyHashCache).hash

\* C24: the signature hash of input i does not depend on signature scripts:
\* the hash that was signed for input i is the one calculateSigHash gives
\* whichever other inputs have their signatureScript populated, so signing
\* the inputs in another order signs the same hashes.
C24_SigHashIgnoresScripts ==
  \A i \in 1..Len(signedHashes) :
    \A signed \in SUBSET (1..Len(workingTx.inputs)) :
      SigHashAfter(signed, i) = Ok(signedHashes[i])

\* two inputs signed: the hash of the second was computed with the
\* signature script of the first in place
C24_Witness ==
  /\ Len(signedHashes) = 2
  /\ signedHashes[1] # signedHashes[2]
  /\ workingTx.inputs[1].signatureScript # <<>>
  /\ SigHashAfter({2}, 1) = SigHashAfter({}, 1)

\* C25: every output of a returned payload, the change output included, has
\* an amount greater than 0, whatever dust threshold the caller passed.
C25_PositiveAmounts ==
  Returned =>
    \A i \in 1..Len(PayloadTx.outputs) : DecimalValue(PayloadTx.outputs[i].amount) > 0

\* addressToScriptPublicKey gives a script for the address under the
\* prefixes of the request
Decodable(addr) == ScriptTable[addr, params.addressPrefixes].ok
ChangeNeeded == RequestedChange >= RequestedDust
\* the request is in order apart, possibly, from its change address
OnlyChangeAddressInDoubt ==
  /\ PassesEntryChecks
  /\ \A i \in 1..Len(params.inputs) :
       Decodable(params.inputs[i].address) /\ params.inputs[i].amount >= 0
  /\ \A i \in 1..Len(params.outputs) :
       Decodable(params.outputs[i].address) /\ params.outputs[i].amount > 0
  /\ RequestedChange >= 0

\* C26 as stated: a call whose change address cannot be decoded returns no
\* payload, whether or not a change output is needed.
C26_ChangeAddressAlwaysResolved ==
  ~Decodable(params.changeAddress) => ~Returned

\* C26, amended: a returned payload means every input and output address of
\* the request was resolved, and the change address too when a change output
\* is needed; a call in need of a change output whose change address cannot
\* be decoded fails with the decoding error and returns no payload, while a
\* call that needs no change output never resolves the change address.
C26_ChangeAddressResolvedWhenNeeded ==
  /\ Returned =>
       /\ \A i \in 1..Len(params.inputs) : Decodable(params.inputs[i].address)
       /\ \A i \in 1..Len(params.outputs) : Decodable(params.outputs[i].address)
       /\ ChangeNeeded => Decodable(params.changeAddress)
       /\ resolved = Len(params.inputs) + Len(params.outputs)
                       + (IF ChangeNeeded THEN 1 ELSE 0)
  /\ Failed => returned = <<>>
  /\ (pc \in {"sign", "emit", "returned"} /\ ChangeNeeded) =>
       Decodable(params.changeAddress)
  /\ (Failed /\ OnlyChangeAddressInDoubt /\ ChangeNeeded) =>
       /\ ~Decodable(params.changeAddress)
       /\ thrown = <<ScriptTable[params.changeAddress, params.addressPrefixes].err>>

\* the change output is needed and the change address does not decode: the
\* call has failed at the change stage, after every other address resolved
C26_Witness ==
  /\ Failed
  /\ OnlyChangeAddressInDoubt
  /\ ChangeNeeded
  /\ ~Decodable(params.changeAddress)
  /\ resolved = Len(params.inputs) + Len(params.outputs) + 1
  /\ returned = <<>>

(***************************************************************************)
(* Properties of the recipient check (checked under SpecRecipient)         *)
(***************************************************************************)
\* C27: every address that isValidKaspaAddress accepts for a network is
\* turned into a spend script by addressToScriptPublicKey with that network's
\* prefix.
C27_AcceptedAddressResolves ==
  (codecPc = "scripted" /\ addressCheck = <<TRUE>>) => scriptResult[1].ok

(***************************************************************************)
(* Properties of submitTransaction (checked under SpecSubmit)              *)
(***************************************************************************)
SubmitReturned == submission.pc = "returned"
SubmitThrown == submission.pc = "thrown"

\* C28: submitTransaction makes at most 3 attempts per call; it returns on
\* the first attempt that yields a transaction id; it makes another attempt
\* only after an error classified transient and while fewer than 3 attempts
\* have been made, waiting 400 ms and then 800 ms; a non-transient error, or
\* the error of the third attempt, is rethrown without a further attempt.
C28_BoundedRetries ==
  /\ submission.requests <= 3
  /\ submission.requests =
       Len(submission.errors) + (IF SubmitReturned THEN 1 ELSE 0)
  /\ SubmitReturned <=> submission.result # <<>>
  /\ \A k \in 1..Len(submission.errors) :
       (k < Len(submission.errors) \/ ~SubmitThrown) =>
          /\ isTransientBroadcastError(submission.errors[k])
          /\ k < 3
  /\ submission.delays =
       SubSeq(<<400, 800>>, 1,
              Len(submission.errors) - (IF SubmitThrown THEN 1 ELSE 0))
  /\ SubmitThrown =>
       /\ submission.thrownError = <<submission.errors[Len(submission.errors)]>>
       /\ \/ ~isTransientBroadcastError(submission.errors[Len(submission.errors)])
          \/ submission.requests = 3
  /\ ~SubmitThrown => submission.thrownError = <<>>

\* two transient errors, each followed by a wait, then a third error that is
\* transient too and is rethrown
C28_Witness ==
  /\ SubmitThrown
  /\ submission.requests = 3
  /\ submission.delays = <<400, 800>>
  /\ isTransientBroadcastError(submission.thrownError[1])

(***************************************************************************)
(* Properties of sendTransaction (checked under SpecSend)                  *)
(***************************************************************************)
SendEnded == sending.pc \in {"returned", "failed"}
\* the number a message names after "required amount of", or -1
RequiredFeeNamed(message) ==
  IF parseRequiredFeeFromError(message) = <<>> THEN -1
  ELSE parseRequiredFeeFromError(message)[1]
SumOfUtxos(utxos) == SumAmounts(utxos)

\* C29: sendTransaction builds and broadcasts at most 3 transactions per
\* call; it rebuilds only when the broadcast error names a required fee
\* greater than the fee just used and attempts remain; the next attempt uses
\* that fee + 50 and selects UTXOs covering amount + the new fee, or fails
\* with Insufficient balance; the fee grows from each attempt to the next;
\* any other broadcast error ends the call with that error; isLoading is
\* false when the call has ended.
C29_FeeRetry ==
  /\ Len(sending.fees) <= 3 /\ Len(sending.errors) <= 3
  /\ Len(sending.errors) <= Len(sending.fees)
  /\ \A k \in 1..Len(sending.fees) :
       /\ sending.totals[k] >= sending.request.amount + sending.fees[k]
       /\ k > 1 =>
            /\ sending.fees[k] = RequiredFeeNamed(sending.errors[k - 1]) + 50
            /\ RequiredFeeNamed(sending.errors[k - 1]) > sending.fees[k - 1]
            /\ sending.fees[k] > sending.fees[k - 1]
  /\ \A k \in 1..Len(sending.errors) :
       LET named == RequiredFeeNamed(sending.errors[k])
       IN IF named > sending.fees[k] /\ k < 3
          THEN \/ Len(sending.fees) > k
               \/ /\ sending.pc = "failed"
                  /\ sending.thrown = <<InsufficientBalanceMessage>>
                  /\ SumOfUtxos(sending.request.utxos)
                       < sending.request.amount + named + 50
          ELSE /\ k = Len(sending.errors) /\ Len(sending.fees) = k
               /\ sending.pc = "failed"
               /\ sending.thrown = <<sending.errors[k]>>
  /\ SendEnded => sending.isLoading = FALSE
  /\ sending.pc = "returned" =>
       sending.txId # <<>> /\ Len(sending.fees) = Len(sending.errors) + 1

\* three transactions were built, with fees 1000, 2086 and 2150, and the
\* third broadcast was rejected too: the call ended with that error
C29_Witness ==
  /\ sending.pc = "failed"
  /\ sending.fees = <<1000, 2086, 2150>>
  /\ Len(sending.errors) = 3
  /\ sending.thrown = <<sending.errors[3]>>
  /\ RequiredFeeNamed(sending.errors[3]) > 2150

(***************************************************************************)
(* Properties of the wallet store (checked under SpecStore)                *)
(***************************************************************************)
\* C30: whenever the store is locked it holds no wallet data: wallet is null,
\* address is empty, balance is 0, utxos and transactions are empty, and the
\* session password and vault references are cleared -- in every
\* interleaving with fetchBalance and fetchTransactions requests.
C30_LockedHoldsNoData ==
  store.isLocked =>
    /\ store.wallet = "null"
    /\ store.address = <<>>
    /\ store.balance = 0
    /\ store.utxos = <<>>
    /\ store.transactions = <<>>
    /\ store.sessionPassword = "null"
    /\ store.sessionVault = "null"

====
